---- MODULE Spec2Model ----
(***************************************************************************)
(* Model of the recommendation core: ProductMatcher (rule score, optional  *)
(* ML blend, acceptance threshold, per-user top-5), MLEnhancer, and the    *)
(* optimisation strategies of AdvancedRecommendationEngine.                *)
(*                                                                         *)
(* Scores are fixed-point integers in units of 1e-4 (1.0 = 10000): every   *)
(* score the code emits is rounded to three decimals, and every blend of   *)
(* such scores with the weights 0.4 / 0.6 is a multiple of 1e-4.           *)
(* Money, days and counts are plain integers; category_diversity uses the  *)
(* score unit.  A numeric profile field that is absent, None or 0 reads as *)
(* 0 in the code (`get(k, 0) or 0`), so 0 stands for all three.            *)
(***************************************************************************)
EXTENDS Integers, Sequences, FiniteSets, TLC

VARIABLES
    is_trained,       \* MLEnhancer.is_trained
    pc,               \* position of the caller: which operation runs / has run
    use_ml,           \* argument of match_users_to_products
    user_profiles,    \* rows of user_profiles iterated so far, in order
    ml_outcomes,      \* per iterated user: what the model did for each product
    recommendations,  \* the candidate frame (list of dicts / DataFrame rows)
    tie_order,        \* order polars leaves rows with equal sort keys in
    strategy,         \* label given to _apply_optimization_strategy
    optimized,        \* rows returned by the strategy
    outcome,          \* "none", "ok" or the exception the operation raised
    profile,          \* argument of _calculate_simple_product_match
    match,            \* its return value
    failed_users,     \* the users whose processing raised inside the batch loop
    log,              \* the summary and error lines printed so far
    events_df,        \* argument of create_user_profiles: the events
    items_df,         \* argument of create_user_profiles: the catalog
    enriched_events,  \* what _enrich_events_with_item_data returned
    sample_users,     \* the user ids create_user_profiles iterates, in order
    processed,        \* how many of them the loop has dealt with
    sum_of_nulls,     \* what Series.sum() gives for a column of nulls only
    metrics,          \* return value of calculate_all_metrics
    entry,            \* the entry point of the engine that was called
    strategies_left,  \* generate_strategy_comparison: strategies still to test
    comparison_results, \* generate_strategy_comparison: strategy -> results
    best_strategy,    \* what _select_best_strategy returned
    scored,           \* how many profile rows the matcher's loop has dealt with
    bad_rows          \* the profile rows on which the matcher's call raises

\* The state of the UserProfiler.
profiler_vars == <<events_df, items_df, enriched_events, sample_users, processed,
                   sum_of_nulls>>

\* The state of the engine around the matcher and the strategies.
engine_vars == <<metrics, entry, strategies_left, comparison_results, best_strategy,
                 scored, bad_rows>>

\* The engine's state besides the metrics.
call_vars == <<entry, strategies_left, comparison_results, best_strategy, scored,
               bad_rows>>

vars == <<is_trained, pc, use_ml, user_profiles, ml_outcomes, recommendations,
          tie_order, strategy, optimized, outcome, profile, match, failed_users, log,
          profiler_vars, engine_vars>>

----------------------------------------------------------------------------
(* Bounds of the model.                                                    *)

MaxUsers == 2

NumProducts == 6

MaxCands == 4

----------------------------------------------------------------------------
(* Generic helpers.                                                        *)

Min(a, b) == IF a < b THEN a ELSE b

Max(a, b) == IF a > b THEN a ELSE b

\* The set of the elements of a sequence.
Range(s) == {s[i] : i \in 1..Len(s)}

RECURSIVE SumOver(_)
SumOver(s) == IF s = <<>> THEN 0 ELSE Head(s) + SumOver(Tail(s))

\* Python round(x, 3) of a score given in units of 1e-4.  The inputs of the
\* model never sit on a rounding tie.
round3(x) == ((x + 5) \div 10) * 10

----------------------------------------------------------------------------
(* config/products.py: BANK_PRODUCTS in insertion order (dict order, then  *)
(* list order), the fields the scoring and the strategies read.            *)

BANK_PRODUCTS ==
    << [id |-> "deposit_1", name |-> "Vklad PSB.Nakopitelny",
         product_type |-> "deposits", business_value |-> 7000],
       [id |-> "deposit_2", name |-> "Vklad PSB.Vygodny",
         product_type |-> "deposits", business_value |-> 8000],
       [id |-> "deposit_3", name |-> "Vklad PSB.Pensionny",
         product_type |-> "deposits", business_value |-> 6000],
       [id |-> "deposit_4", name |-> "Vklad PSB.Osoby",
         product_type |-> "deposits", business_value |-> 9000],
       [id |-> "savings_1", name |-> "Sberegatelny schet PSB.Svobodny",
         product_type |-> "savings_accounts", business_value |-> 6000],
       [id |-> "savings_2", name |-> "Sberegatelny schet PSB.Svobodny Plus",
         product_type |-> "savings_accounts", business_value |-> 7000],
       [id |-> "savings_3", name |-> "Sberegatelny schet Pochetny status",
         product_type |-> "savings_accounts", business_value |-> 8000],
       [id |-> "premium_card_1", name |-> "PSB.Karta Premium",
         product_type |-> "premium_cards", business_value |-> 9000],
       [id |-> "credit_1", name |-> "PSB.Kreditnaya karta 180 dney bez % (100 Plus)",
         product_type |-> "credit_cards", business_value |-> 8000],
       [id |-> "credit_2", name |-> "Premialnaya kreditnaya karta",
         product_type |-> "credit_cards", business_value |-> 8500] >>

\* The catalog the model iterates: the first NumProducts products.
bank_products == SubSeq(BANK_PRODUCTS, 1, Min(NumProducts, Len(BANK_PRODUCTS)))

ProductIndex(pid) == CHOOSE i \in 1..Len(BANK_PRODUCTS) : BANK_PRODUCTS[i].id = pid

BusinessValues == {bank_products[i].business_value : i \in 1..Len(bank_products)}

----------------------------------------------------------------------------
(* ProductMatcher._calculate_simple_product_match                          *)

spending_bonus(p) ==
    IF p.spending_level \in {"high", "very_high"} THEN <<2000, "spending_high">>
    ELSE IF p.spending_level = "medium" THEN <<1000, "spending_medium">>
    ELSE <<0, "">>

activity_bonus(p) ==
    IF p.interaction_frequency \in {"high", "very_high"} THEN <<1500, "activity_high">>
    ELSE IF p.interaction_frequency = "medium" THEN <<800, "activity_medium">>
    ELSE <<0, "">>

\* Variant: the upper threshold taken inclusively (>= 50000).
total_spent_bonus_inclusive(p) ==
    IF p.total_spent >= 50000 THEN <<1500, "total_spent_significant">>
    ELSE IF p.total_spent > 20000 THEN <<800, "total_spent_notable">>
    ELSE <<0, "">>

total_spent_bonus(p) ==
    IF p.total_spent > 50000 THEN <<1500, "total_spent_significant">>
    ELSE IF p.total_spent > 20000 THEN <<800, "total_spent_notable">>
    ELSE <<0, "">>

avg_transaction_bonus(p) ==
    IF p.avg_transaction_value > 10000 THEN <<1000, "avg_check_high">>
    ELSE IF p.avg_transaction_value > 5000 THEN <<500, "avg_check_above_average">>
    ELSE <<0, "">>

diversity_bonus(p) ==
    IF p.category_diversity > 3000 THEN <<1000, "interests_wide">>
    ELSE IF p.category_diversity > 1000 THEN <<500, "interests_diverse">>
    ELSE <<0, "">>

duration_bonus(p) ==
    IF p.activity_duration_days > 180 THEN <<800, "activity_long">>
    ELSE IF p.activity_duration_days > 30 THEN <<400, "activity_stable">>
    ELSE <<0, "">>

affinity_bonus(p) ==
    IF p.category_affinity # {} THEN <<500, "has_category_affinity">>
    ELSE <<0, "">>

\* The seven checks in the order the code makes them.
signal_checks(p) ==
    << spending_bonus(p), activity_bonus(p), total_spent_bonus(p),
       avg_transaction_bonus(p), diversity_bonus(p), duration_bonus(p),
       affinity_bonus(p) >>

RECURSIVE reasoning_parts(_)
reasoning_parts(checks) ==
    IF checks = <<>> THEN <<>>
    ELSE IF Head(checks)[1] > 0
         THEN <<Head(checks)[2]>> \o reasoning_parts(Tail(checks))
         ELSE reasoning_parts(Tail(checks))

RECURSIVE bonus_total(_)
bonus_total(checks) ==
    IF checks = <<>> THEN 0 ELSE Head(checks)[1] + bonus_total(Tail(checks))

\* Variant of the rule score that also rewards the product's business value.
_calculate_simple_product_match_by_value(p, product) ==
    LET checks == signal_checks(p)
        score  == 3000 + bonus_total(checks) + product.business_value \div 10
    IN  [score |-> Min(score, 10000), reasoning |-> reasoning_parts(checks)]

_calculate_simple_product_match(p, product) ==
    LET checks == signal_checks(p)
        score  == 3000 + bonus_total(checks)
    IN  [score |-> Min(score, 10000), reasoning |-> reasoning_parts(checks)]

----------------------------------------------------------------------------
(* Inputs of the scoring function: every tier of every signal, with the    *)
(* values on both sides of each threshold.                                 *)

Levels == {"unknown", "medium", "high", "very_high"}

TotalSpentValues == {0, 20000, 20001, 50000, 50001, 80000}

AvgTransactionValues == {0, 5000, 5001, 10000, 10001, 12000}

DiversityValues == {0, 1000, 1001, 3000, 3001, 4000}

DurationValues == {0, 30, 31, 180, 181, 200}

AffinityValues == {{}, {"electronics"}}

ProfileSpace ==
    [ user_id : {1},
      spending_level : Levels,
      interaction_frequency : Levels,
      total_spent : TotalSpentValues,
      avg_transaction_value : AvgTransactionValues,
      category_diversity : DiversityValues,
      activity_duration_days : DurationValues,
      category_affinity : AffinityValues ]

NoMatch == [score |-> 0, reasoning |-> <<>>]

NoProfile ==
    [ user_id |-> 0, spending_level |-> "unknown", interaction_frequency |-> "unknown",
      total_spent |-> 0, avg_transaction_value |-> 0, category_diversity |-> 0,
      activity_duration_days |-> 0, category_affinity |-> {} ]

----------------------------------------------------------------------------
(* MLEnhancer.  The fitted RandomForest is opaque: what it returns for a   *)
(* feature vector is an input of the model.  _extract_features reads the   *)
(* product only through business_value, so for one user the raw prediction *)
(* is a function of business_value; a failure inside predict's try block   *)
(* (feature extraction, scaler, model) is per user.                        *)

\* Raw model outputs before np.clip: 0.051 and 1.3.
RawPredictions == {510, 13000}

NotConsulted == [raises |-> FALSE, raw |-> [b \in BusinessValues |-> 0]]

MLOutcomes ==
    {[raises |-> TRUE, raw |-> [b \in BusinessValues |-> 0]]}
    \cup {[raises |-> FALSE, raw |-> f] : f \in [BusinessValues -> RawPredictions]}

clip(x, lo, hi) == Max(lo, Min(x, hi))

\* Variant: the model output returned without np.clip.
predict_unclipped(ml, product) ==
    IF ~is_trained THEN 5000
    ELSE IF ml.raises THEN 5000
    ELSE ml.raw[product.business_value]

\* MLEnhancer.predict: 0.5 when not trained, 0.5 when anything raises inside
\* the try block, otherwise the clipped model output.
predict(ml, product) ==
    IF ~is_trained THEN 5000
    ELSE IF ml.raises THEN 5000
    ELSE clip(ml.raw[product.business_value], 0, 10000)

\* MLEnhancer.optimize: round(base * 0.6 + ml * 0.4, 3).  predict swallows
\* every exception, so optimize itself never raises.
optimize(base_score, ml, product) ==
    LET ml_score == predict(ml, product)
        x == 6 * base_score + 4 * ml_score          \* units of 1e-5
    IN  [raised |-> FALSE, value |-> ((x + 50) \div 100) * 10]

----------------------------------------------------------------------------
(* ProductMatcher._get_enhanced_recommendations_for_user                   *)

\* _generate_data_based_explanation: the generic sentence when there is no
\* reasoning, the itemised one otherwise (the text itself is not modelled).
_generate_data_based_explanation(reasoning) ==
    IF reasoning = <<>> THEN "general_analysis" ELSE "because_of_reasons"

\* Variant: the acceptance test taken inclusively (final_score >= 0.2).
candidate_rows_inclusive(p, product, useml, ml) ==
    LET m   == _calculate_simple_product_match(p, product)
        opt == optimize(m.score, ml, product)
        ml_used == useml /\ is_trained /\ ~opt.raised
        final_score == IF ml_used THEN opt.value ELSE m.score
    IN  IF final_score >= 2000
        THEN << [ user_id |-> p.user_id,
                  product_id |-> product.id,
                  product_name |-> product.name,
                  product_type |-> product.product_type,
                  base_match_score |-> round3(m.score),
                  final_score |-> round3(final_score),
                  reasoning |-> m.reasoning,
                  llm_explanation |-> _generate_data_based_explanation(m.reasoning),
                  business_value |-> product.business_value,
                  ml_enhanced |-> ml_used,
                  llm_enhanced |-> TRUE ] >>
        ELSE <<>>

\* The row appended for one product, or no row when final_score <= 0.2.
candidate_rows(p, product, useml, ml) ==
    LET m   == _calculate_simple_product_match(p, product)
        opt == optimize(m.score, ml, product)
        consulted == useml /\ is_trained
        ml_used == consulted /\ ~opt.raised
        final_score == IF ml_used THEN opt.value ELSE m.score
    IN  IF final_score > 2000
        THEN << [ user_id |-> p.user_id,
                  product_id |-> product.id,
                  product_name |-> product.name,
                  product_type |-> product.product_type,
                  base_match_score |-> round3(m.score),
                  final_score |-> round3(final_score),
                  reasoning |-> m.reasoning,
                  llm_explanation |-> _generate_data_based_explanation(m.reasoning),
                  business_value |-> product.business_value,
                  ml_enhanced |-> ml_used,
                  llm_enhanced |-> TRUE ] >>
        ELSE <<>>

RECURSIVE all_candidates(_, _, _, _)
all_candidates(p, products, useml, ml) ==
    IF products = <<>> THEN <<>>
    ELSE candidate_rows(p, Head(products), useml, ml)
         \o all_candidates(p, Tail(products), useml, ml)

\* Python's sorted(..., key=final_score, reverse=True): stable, equal keys
\* keep their order.
RECURSIVE insert_desc(_, _)
insert_desc(sorted, x) ==
    IF sorted = <<>> THEN <<x>>
    ELSE IF Head(sorted).final_score >= x.final_score
         THEN <<Head(sorted)>> \o insert_desc(Tail(sorted), x)
         ELSE <<x>> \o sorted

\* Variant: a descending sort that reverses rows of equal key (a stable
\* ascending sort, reversed).
RECURSIVE sorted_reversing_ties(_)
sorted_reversing_ties(rows) ==
    IF rows = <<>> THEN <<>>
    ELSE insert_desc(sorted_reversing_ties(Tail(rows)), Head(rows))

RECURSIVE sorted_by_final_score(_)
sorted_by_final_score(rows) ==
    IF rows = <<>> THEN <<>>
    ELSE insert_desc(sorted_by_final_score(SubSeq(rows, 1, Len(rows) - 1)),
                     rows[Len(rows)])

top5(rows) == SubSeq(rows, 1, Min(5, Len(rows)))

_get_enhanced_recommendations_for_user(p, useml, ml) ==
    top5(sorted_by_final_score(all_candidates(p, bank_products, useml, ml)))

----------------------------------------------------------------------------
(* The profiles the matcher is run on: no signal at all (rule score 0.3)   *)
(* and the profile of scenario B (rule score 1.0).                         *)

LowProfile(u) ==
    [ user_id |-> u, spending_level |-> "unknown", interaction_frequency |-> "unknown",
      total_spent |-> 0, avg_transaction_value |-> 0, category_diversity |-> 0,
      activity_duration_days |-> 0, category_affinity |-> {} ]

ScenarioBProfile(u) ==
    [ user_id |-> u, spending_level |-> "very_high", interaction_frequency |-> "high",
      total_spent |-> 80000, avg_transaction_value |-> 12000, category_diversity |-> 4000,
      activity_duration_days |-> 200, category_affinity |-> {"electronics"} ]

ProfileChoices(u) == {LowProfile(u), ScenarioBProfile(u)}

----------------------------------------------------------------------------
(* ProductMatcher: construction, training, match_users_to_products.        *)

\* No profiling call is in progress.
ProfilerIdle ==
    /\ events_df = <<>>
    /\ items_df = <<>>
    /\ enriched_events = <<>>
    /\ sample_users = <<>>
    /\ processed = 0
    /\ sum_of_nulls = "zero"

NoMetrics == [computed |-> FALSE]

\* No engine call is in progress.
NoBest == [strategy |-> ""]

EngineIdle ==
    /\ metrics = NoMetrics
    /\ entry = ""
    /\ strategies_left = <<>>
    /\ comparison_results = <<>>
    /\ best_strategy = NoBest
    /\ scored = 0
    /\ bad_rows = {}

\* After ProductMatcher.__init__: load_model found models/ml_enhancer.pkl
\* (is_trained = TRUE) or did not.
Init ==
    /\ is_trained \in BOOLEAN
    /\ pc = "idle"
    /\ use_ml = FALSE
    /\ user_profiles = <<>>
    /\ ml_outcomes = <<>>
    /\ recommendations = <<>>
    /\ tie_order = <<>>
    /\ strategy = ""
    /\ optimized = <<>>
    /\ outcome = "none"
    /\ profile = NoProfile
    /\ match = NoMatch
    /\ failed_users = <<>>
    /\ log = <<>>
    /\ ProfilerIdle
    /\ EngineIdle

\* ProductMatcher.train_ml_model -> MLEnhancer.train: sets is_trained when
\* the data is non-empty and fitting succeeds, leaves it alone otherwise.
train_ml_model ==
    /\ pc = "idle"
    /\ \E fitted \in BOOLEAN : is_trained' = (is_trained \/ fitted)
    /\ UNCHANGED <<pc, use_ml, user_profiles, ml_outcomes, recommendations, tie_order,
                   strategy, optimized, outcome, profile, match, failed_users, log,
                   profiler_vars, engine_vars>>

\* match_users_to_products is entered: recommendations = [].
StartMatch ==
    /\ pc = "idle"
    /\ pc' = "matching"
    /\ use_ml' \in BOOLEAN
    /\ recommendations' = <<>>
    /\ user_profiles' = <<>>
    /\ ml_outcomes' = <<>>
    /\ UNCHANGED <<is_trained, tie_order, strategy, optimized, outcome, profile, match,
                   failed_users, log, profiler_vars, engine_vars>>

\* One iteration of the loop over user_profiles.iter_rows.  raises: the call
\* for this row raised (a cell of a type the comparisons of the rule score
\* reject, such as a text total_spent); the except branch prints the error
\* and goes on to the next row.
MatchUser ==
    /\ pc = "matching"
    /\ Len(user_profiles) < MaxUsers
    /\ \E p \in ProfileChoices(Len(user_profiles) + 1) :
       \E raises \in BOOLEAN :
       \E ml \in (IF use_ml /\ is_trained /\ ~raises THEN MLOutcomes ELSE {NotConsulted}) :
          /\ user_profiles' = Append(user_profiles, p)
          /\ ml_outcomes' = Append(ml_outcomes, ml)
          /\ recommendations' =
                IF raises THEN recommendations
                ELSE recommendations \o _get_enhanced_recommendations_for_user(p, use_ml, ml)
          /\ failed_users' =
                IF raises THEN Append(failed_users, p.user_id) ELSE failed_users
          /\ log' = IF raises THEN Append(log, <<"user_error", p.user_id>>) ELSE log
    /\ UNCHANGED <<is_trained, pc, use_ml, tie_order, strategy, optimized, outcome,
                   profile, match, profiler_vars, engine_vars>>

\* The loop ends and the frame (or an empty DataFrame) is returned;
\* processed_users counts the rows whose call did not raise.
FinishMatch ==
    /\ pc = "matching"
    /\ pc' = "matched"
    /\ outcome' = "ok"
    /\ log' = IF recommendations = <<>> THEN Append(log, <<"no_recommendations">>)
              ELSE Append(log, <<"generated", Len(recommendations),
                                 Len(user_profiles) - Len(failed_users)>>)
    /\ UNCHANGED <<is_trained, use_ml, user_profiles, ml_outcomes, recommendations,
                   tie_order, strategy, optimized, profile, match, failed_users,
                   profiler_vars, engine_vars>>

Next == train_ml_model \/ StartMatch \/ MatchUser \/ FinishMatch

Spec == Init /\ [][Next]_vars

----------------------------------------------------------------------------
(* Specification of the scoring function alone.                            *)

InitScoring ==
    /\ is_trained = FALSE
    /\ pc = "score_call"
    /\ use_ml = FALSE
    /\ user_profiles = <<>>
    /\ ml_outcomes = <<>>
    /\ recommendations = <<>>
    /\ tie_order = <<>>
    /\ strategy = ""
    /\ optimized = <<>>
    /\ outcome = "none"
    /\ profile \in ProfileSpace
    /\ match = NoMatch
    /\ failed_users = <<>>
    /\ log = <<>>
    /\ ProfilerIdle
    /\ EngineIdle

CalculateMatch ==
    /\ pc = "score_call"
    /\ pc' = "score_done"
    /\ match' = _calculate_simple_product_match(profile, bank_products[1])
    /\ UNCHANGED <<is_trained, use_ml, user_profiles, ml_outcomes, recommendations,
                   tie_order, strategy, optimized, outcome, profile, failed_users, log,
                   profiler_vars, engine_vars>>

NextScoring == CalculateMatch

SpecScoring == InitScoring /\ [][NextScoring]_vars

----------------------------------------------------------------------------
(* polars primitives used by the strategies, on a frame given as a         *)
(* sequence of rows.                                                       *)
(*                                                                         *)
(* DataFrame.sort is called without maintain_order, so the relative order  *)
(* of rows with equal sort keys is unspecified; it is fixed for a given    *)
(* frame (the sort is a deterministic function of its input).  tie_order   *)
(* is that order: a permutation of the frame's row positions, the rank     *)
(* each row gets among rows of equal key.  group_by keeps the rows of a    *)
(* group in frame order; the order of the groups themselves is unspecified *)
(* and is modelled as the order of first appearance.                       *)

TieOrders(n) == {f \in [1..n -> 1..n] : \A i, j \in 1..n : f[i] = f[j] => i = j}

\* with_columns((w1 * final_score + w2 * business_value).alias(col)), the
\* weights in tenths.
with_blend_column(rows, col, wf, wb) ==
    [i \in 1..Len(rows) |->
        (col :> ((wf * rows[i].final_score + wb * rows[i].business_value) \div 10))
        @@ rows[i]]

\* Row i comes before row j in sort(['user_id', col], descending=[False, True]).
sorts_before(rows, col, i, j) ==
    \/ rows[i].user_id < rows[j].user_id
    \/ /\ rows[i].user_id = rows[j].user_id
       /\ \/ rows[i][col] > rows[j][col]
          \/ rows[i][col] = rows[j][col] /\ tie_order[i] < tie_order[j]

RECURSIVE sort_positions(_, _, _)
sort_positions(rows, col, left) ==
    IF left = {} THEN <<>>
    ELSE LET first == CHOOSE i \in left :
                          \A j \in left \ {i} : sorts_before(rows, col, i, j)
         IN  <<first>> \o sort_positions(rows, col, left \ {first})

sort_by_user_and(rows, col) ==
    LET order == sort_positions(rows, col, 1..Len(rows))
    IN  [k \in 1..Len(rows) |-> rows[order[k]]]

\* The user_id of each group, in order of first appearance.
RECURSIVE group_keys(_)
group_keys(rows) ==
    IF rows = <<>> THEN <<>>
    ELSE LET rest == group_keys(SubSeq(rows, 1, Len(rows) - 1))
             u == rows[Len(rows)].user_id
         IN  IF u \in Range(rest) THEN rest ELSE Append(rest, u)

group_rows(rows, u) == SelectSeq(rows, LAMBDA r : r.user_id = u)

\* group_by('user_id').head(n)
RECURSIVE group_by_head_of(_, _, _)
group_by_head_of(rows, keys, n) ==
    IF keys = <<>> THEN <<>>
    ELSE LET g == group_rows(rows, Head(keys))
         IN  SubSeq(g, 1, Min(n, Len(g))) \o group_by_head_of(rows, Tail(keys), n)

group_by_head(rows, n) == group_by_head_of(rows, group_keys(rows), n)

\* group_by('user_id').agg([pl.col(src).first().alias(name), ...]): aggs is
\* the list of <<src, name>>.  Two expressions with the same output name
\* make polars raise DuplicateError; otherwise each group gives one row.
output_names(aggs) == [i \in 1..Len(aggs) |-> aggs[i][2]]

has_duplicate_names(aggs) ==
    \E i, j \in 1..Len(aggs) : i # j /\ aggs[i][2] = aggs[j][2]

source_of(aggs, c) == aggs[CHOOSE k \in 1..Len(aggs) : aggs[k][2] = c][1]

first_row(g, aggs) ==
    [c \in {"user_id"} \cup Range(output_names(aggs)) |->
        IF c = "user_id" THEN g[1].user_id ELSE g[1][source_of(aggs, c)]]

RECURSIVE group_by_first_of(_, _, _)
group_by_first_of(rows, keys, aggs) ==
    IF keys = <<>> THEN <<>>
    ELSE <<first_row(group_rows(rows, Head(keys)), aggs)>>
         \o group_by_first_of(rows, Tail(keys), aggs)

group_by_agg_first(rows, aggs) ==
    IF has_duplicate_names(aggs)
    THEN [error |-> "DuplicateError", rows |-> <<>>]
    ELSE [error |-> "ok", rows |-> group_by_first_of(rows, group_keys(rows), aggs)]

\* with_columns(pl.col(src).alias('final_score')).drop(src)
replace_final_score(rows, src) ==
    [i \in 1..Len(rows) |->
        [c \in DOMAIN rows[i] \ {src} |->
            IF c = "final_score" THEN rows[i][src] ELSE rows[i][c]]]

----------------------------------------------------------------------------
(* AdvancedRecommendationEngine: the four strategies.  Each returns        *)
(* [error, rows]: error is "ok" or the exception raised.                   *)

\* Variant: the frame ranked by business_value instead of final_score.
_optimize_for_coverage_by_value(recs) ==
    [error |-> "ok",
     rows |-> group_by_head(sort_by_user_and(recs, "business_value"), 1)]

_optimize_for_coverage(recs) ==
    [error |-> "ok",
     rows |-> group_by_head(sort_by_user_and(recs, "final_score"), 1)]

\* Variant: the two weights exchanged (0.6 * final_score + 0.4 * business_value).
revenue_ranked_swapped(recs) ==
    sort_by_user_and(with_blend_column(recs, "revenue_score", 6, 4), "revenue_score")

\* The ranked frame of _optimize_for_revenue (lines 100-103).
revenue_ranked(recs) ==
    sort_by_user_and(with_blend_column(recs, "revenue_score", 4, 6), "revenue_score")

\* The aggregation list of _optimize_for_revenue: final_score is the output
\* name of two expressions.
revenue_aggs ==
    << <<"product_id", "product_id">>, <<"product_name", "product_name">>,
       <<"product_type", "product_type">>, <<"base_match_score", "base_match_score">>,
       <<"final_score", "final_score">>, <<"business_value", "business_value">>,
       <<"reasoning", "reasoning">>, <<"llm_explanation", "llm_explanation">>,
       <<"ml_enhanced", "ml_enhanced">>, <<"llm_enhanced", "llm_enhanced">>,
       <<"revenue_score", "final_score">> >>

_optimize_for_revenue(recs) == group_by_agg_first(revenue_ranked(recs), revenue_aggs)

engagement_aggs ==
    << <<"product_id", "product_id">>, <<"product_name", "product_name">>,
       <<"product_type", "product_type">>, <<"base_match_score", "base_match_score">>,
       <<"final_score", "final_score">>, <<"business_value", "business_value">>,
       <<"reasoning", "reasoning">>, <<"llm_explanation", "llm_explanation">>,
       <<"ml_enhanced", "ml_enhanced">>, <<"llm_enhanced", "llm_enhanced">> >>

\* Variant: the frame ranked by business_value instead of final_score.
_optimize_for_engagement_by_value(recs) ==
    group_by_agg_first(sort_by_user_and(recs, "business_value"), engagement_aggs)

_optimize_for_engagement(recs) ==
    group_by_agg_first(sort_by_user_and(recs, "final_score"), engagement_aggs)

\* Variant: the two weights exchanged (0.4 * final_score + 0.6 * business_value).
balanced_ranked_swapped(recs) ==
    sort_by_user_and(with_blend_column(recs, "balanced_score", 4, 6), "balanced_score")

\* The ranked frame of _optimize_balanced (lines 154-157).
balanced_ranked(recs) ==
    sort_by_user_and(with_blend_column(recs, "balanced_score", 6, 4), "balanced_score")

_optimize_balanced(recs) ==
    [error |-> "ok",
     rows |-> replace_final_score(group_by_head(balanced_ranked(recs), 3),
                                  "balanced_score")]

\* str.lower() on the labels the model uses.
lowercase(label) == IF label = "Coverage" THEN "coverage" ELSE label

\* Variant: the label compared case-insensitively.
_apply_optimization_strategy_caseless(recs, label) ==
    IF lowercase(label) = "coverage" THEN _optimize_for_coverage(recs)
    ELSE IF lowercase(label) = "revenue" THEN _optimize_for_revenue(recs)
    ELSE IF lowercase(label) = "engagement" THEN _optimize_for_engagement(recs)
    ELSE _optimize_balanced(recs)

_apply_optimization_strategy(recs, label) ==
    IF label = "coverage" THEN _optimize_for_coverage(recs)
    ELSE IF label = "revenue" THEN _optimize_for_revenue(recs)
    ELSE IF label = "engagement" THEN _optimize_for_engagement(recs)
    ELSE _optimize_balanced(recs)

----------------------------------------------------------------------------
(* Specification of the strategies alone, on every candidate frame of up   *)
(* to MaxCands rows.  The rows are listed in one canonical order; since    *)
(* tie_order ranges over all permutations, every order in which rows of    *)
(* equal key can leave the sort is covered, that of a stable sort of any   *)
(* rearrangement of the frame included.                                    *)

FrameUsers == {1, 2}

FrameScores == {5000, 9000}

FrameBusinessValues == {2000, 9000}

FrameCells == FrameUsers \X FrameScores \X FrameBusinessValues

cell_leq(a, b) ==
    \/ a[1] < b[1]
    \/ a[1] = b[1] /\ a[2] < b[2]
    \/ a[1] = b[1] /\ a[2] = b[2] /\ a[3] <= b[3]

FrameLayouts ==
    UNION { {f \in [1..n -> FrameCells] :
                \A i \in 1..(n - 1) : cell_leq(f[i], f[i + 1])}
            : n \in 1..MaxCands }

\* Row k of a frame: the k-th product of the catalog, with the cell's user,
\* score and business value.
frame_row(k, c) ==
    [ user_id |-> c[1],
      product_id |-> BANK_PRODUCTS[k].id,
      product_name |-> BANK_PRODUCTS[k].name,
      product_type |-> BANK_PRODUCTS[k].product_type,
      base_match_score |-> c[2],
      final_score |-> c[2],
      reasoning |-> <<>>,
      llm_explanation |-> "general_analysis",
      business_value |-> c[3],
      ml_enhanced |-> FALSE,
      llm_enhanced |-> TRUE ]

frame_of(layout) == [k \in 1..Len(layout) |-> frame_row(k, layout[k])]

\* The four known labels, an unknown one, the empty one and a known one in
\* another case.
StrategyLabels ==
    {"coverage", "revenue", "engagement", "balanced", "unknown", "", "Coverage"}

InitStrategy ==
    /\ is_trained = FALSE
    /\ pc = "strategy_call"
    /\ use_ml = FALSE
    /\ user_profiles = <<>>
    /\ ml_outcomes = <<>>
    /\ \E layout \in FrameLayouts :
          /\ recommendations = frame_of(layout)
          /\ tie_order \in TieOrders(Len(layout))
    /\ strategy = ""
    /\ optimized = <<>>
    /\ outcome = "none"
    /\ profile = NoProfile
    /\ match = NoMatch
    /\ failed_users = <<>>
    /\ log = <<>>
    /\ ProfilerIdle
    /\ EngineIdle

ApplyStrategy ==
    /\ pc = "strategy_call"
    /\ pc' = "strategy_done"
    /\ \E label \in StrategyLabels :
          LET result == _apply_optimization_strategy(recommendations, label)
          IN  /\ strategy' = label
              /\ optimized' = result.rows
              /\ outcome' = result.error
    /\ UNCHANGED <<is_trained, use_ml, user_profiles, ml_outcomes, recommendations,
                   tie_order, profile, match, failed_users, log, profiler_vars,
                   engine_vars>>

NextStrategy == ApplyStrategy

SpecStrategy == InitStrategy /\ [][NextStrategy]_vars

----------------------------------------------------------------------------
(* Frames.  A DataFrame is a sequence of rows (records); pl.DataFrame() is  *)
(* the empty sequence and has no column.                                   *)

columns(frame) == IF frame = <<>> THEN {} ELSE DOMAIN frame[1]

height(frame) == Len(frame)

column_of(frame, c) == [k \in 1..Len(frame) |-> frame[k][c]]

----------------------------------------------------------------------------
(* src/user_profiler.py: UserProfiler.  Frames are sequences of rows.  A   *)
(* nullable cell is <<>> (null) or <<v>>.  Prices and sums of prices are   *)
(* integers in the currency unit, timestamps are whole days, ratios are in *)
(* units of 1e-4.  The prices and event histories of the model are chosen  *)
(* so that every mean of prices is a whole number.                         *)

Null == <<>>

\* dict(sorted(...)[:10]) keeps ten categories.
TopCategories == 10

\* _calculate_preference_stability compares halves from ten events on.
StabilityEvents == 10

\* create_user_profiles takes min(number of users, 1000) users.
SampleLimit == 1000

is_null(cell) == cell = <<>>

\* The non-null values of a column, in order.
RECURSIVE drop_nulls(_)
drop_nulls(cells) ==
    IF cells = <<>> THEN <<>>
    ELSE IF is_null(Head(cells)) THEN drop_nulls(Tail(cells))
    ELSE <<Head(cells)[1]>> \o drop_nulls(Tail(cells))

\* Series.n_unique(): the number of distinct cells, null counting as one.
n_unique(cells) == Cardinality(Range(cells))

MaxOf(values) == CHOOSE v \in Range(values) : \A w \in Range(values) : w <= v

MinOf(values) == CHOOSE v \in Range(values) : \A w \in Range(values) : v <= w

\* The integer square root.
RECURSIVE isqrt_between(_, _, _)
isqrt_between(x, lo, hi) ==
    IF lo >= hi THEN lo
    ELSE LET mid == (lo + hi + 1) \div 2
         IN  IF mid * mid <= x THEN isqrt_between(x, mid, hi)
             ELSE isqrt_between(x, lo, mid - 1)

isqrt(x) == isqrt_between(x, 0, 46340)

\* pl.col('category').hash() of the categories of the model: the hash is a
\* fixed but arbitrary function; these values give the prices 1680 and 8400.
category_hash(category) == IF category = "electronics" THEN 9680 ELSE 70400

\* items_df with the price_fixed column the code adds when it is missing:
\* (hash(category) % 9000) + 1000 for a category, 2000 for a null one.
with_price_fixed(items) ==
    IF "price_fixed" \in columns(items) THEN items
    ELSE [k \in 1..Len(items) |->
            [price_fixed |->
                IF ~is_null(items[k].category)
                THEN <<(category_hash(items[k].category[1]) % 9000) + 1000>>
                ELSE <<2000>>]
            @@ items[k]]

\* The catalog attributes a left join on item_id gives an event: those of
\* the catalog row with that item_id (item ids are unique in a catalog), or
\* nulls.
joined_attributes(event, items) ==
    LET hits == SelectSeq(items, LAMBDA it : it.item_id = event.item_id)
    IN  IF hits = <<>>
        THEN [category |-> Null, subcategory |-> Null, price_fixed |-> Null]
        ELSE [category |-> hits[1].category, subcategory |-> hits[1].subcategory,
              price_fixed |-> hits[1].price_fixed]

\* _enrich_events_with_item_data: the events unchanged when an input is
\* empty or when the select / join raises (a column of the catalog is
\* missing), the left join otherwise.
_enrich_events_with_item_data(events, items) ==
    IF height(events) = 0 \/ height(items) = 0 THEN events
    ELSE IF ~({"item_id", "category", "subcategory"} \subseteq columns(items))
         THEN events
    ELSE LET priced == with_price_fixed(items)
         IN  [k \in 1..Len(events) |-> joined_attributes(events[k], priced) @@ events[k]]

\* Sum of the squared deviations from the mean.
RECURSIVE squared_deviations(_, _)
squared_deviations(values, mean) ==
    IF values = <<>> THEN 0
    ELSE (Head(values) - mean) * (Head(values) - mean)
         + squared_deviations(Tail(values), mean)

\* Variant of the default spending metrics that leaves max_transaction out.
zero_spending_without_max ==
    [ total_spent |-> 0, avg_transaction_value |-> 0, spending_level |-> "unknown",
      spending_consistency |-> 0 ]

zero_spending ==
    [ total_spent |-> 0, avg_transaction_value |-> 0, spending_level |-> "unknown",
      max_transaction |-> 0, spending_consistency |-> 0 ]

\* _calculate_spending_metrics.  sum(), mean(), max() and std() skip nulls;
\* `x or 0` turns a None into 0.  spending_consistency = std / avg, in units
\* of 1e-4, the standard deviation truncated to a whole currency unit.
_calculate_spending_metrics(user_events) ==
    LET price_col == IF "price_fixed" \in columns(user_events)
                     THEN "price_fixed" ELSE "price"
    IN  IF price_col \notin columns(user_events) THEN zero_spending
        ELSE LET prices == drop_nulls(column_of(user_events, price_col))
                 n == Len(prices)
                 total_spent == SumOver(prices)
                 avg_value == IF n = 0 THEN 0 ELSE total_spent \div n
                 max_value == IF n = 0 THEN 0 ELSE MaxOf(prices)
                 variance == IF n < 2 THEN 0
                             ELSE squared_deviations(prices, avg_value) \div (n - 1)
                 std_dev == isqrt(variance)
             IN  [ total_spent |-> total_spent,
                   avg_transaction_value |-> avg_value,
                   spending_level |->
                      IF total_spent > 50000 THEN "very_high"
                      ELSE IF total_spent > 20000 THEN "high"
                      ELSE IF total_spent > 5000 THEN "medium"
                      ELSE IF total_spent > 1000 THEN "low"
                      ELSE "very_low",
                   max_transaction |-> max_value,
                   spending_consistency |->
                      IF avg_value > 0 THEN (std_dev * 10000) \div avg_value ELSE 0 ]

\* _calculate_preference_stability: 0.5 below 10 events, otherwise the
\* overlap of the category sets of the two halves of the user's events.
_calculate_preference_stability(user_events) ==
    IF "category" \notin columns(user_events) \/ height(user_events) < StabilityEvents THEN 5000
    ELSE LET half_point == height(user_events) \div 2
             first_half == SubSeq(user_events, 1, half_point)
             second_half == SubSeq(user_events, half_point + 1, Len(user_events))
             first_categories == Range(drop_nulls(column_of(first_half, "category")))
             second_categories == Range(drop_nulls(column_of(second_half, "category")))
             overlap == Cardinality(first_categories \cap second_categories)
             total == Cardinality(first_categories \cup second_categories)
         IN  IF total > 0 THEN (overlap * 10000) \div total ELSE 5000

\* _calculate_behavioral_metrics.  max() - min() of a column of nulls is
\* None - None, which raises; the bare except gives "unknown".
_calculate_behavioral_metrics(user_events) ==
    LET total_events == height(user_events)
        stamps == IF "timestamp" \in columns(user_events)
                  THEN drop_nulls(column_of(user_events, "timestamp")) ELSE <<>>
        time_range == MaxOf(stamps) - MinOf(stamps)
        days == IF time_range > 0 THEN time_range ELSE 1
        frequency ==
            IF "timestamp" \notin columns(user_events) THEN "unknown"
            ELSE IF stamps = <<>> THEN "unknown"
            ELSE IF total_events > 10 * days THEN "very_high"
            ELSE IF total_events > 5 * days THEN "high"
            ELSE IF total_events > 2 * days THEN "medium"
            ELSE "low"
        unique_categories ==
            IF "category" \in columns(user_events)
            THEN n_unique(column_of(user_events, "category")) ELSE 0
    IN  [ interaction_frequency |-> frequency,
          category_diversity |->
             IF total_events > 0 THEN (unique_categories * 10000) \div total_events ELSE 0,
          unique_categories_count |-> unique_categories,
          preference_stability |-> _calculate_preference_stability(user_events) ]

\* The categorised events: category not null, not '' and not 'null'.
valid_events_of(user_events) ==
    SelectSeq(user_events,
              LAMBDA e : ~is_null(e.category) /\ e.category[1] \notin {"", "null"})

\* sorted(affinity.items(), key=score, reverse=True): the categories by
\* descending score.  Categories of equal score keep the order of the
\* grouped frame, which polars does not specify; in the histories of the
\* model no two categories around the cut have the same score.
RECURSIVE sorted_categories(_, _)
sorted_categories(scores, left) ==
    IF left = {} THEN <<>>
    ELSE LET best == CHOOSE c \in left : \A d \in left : scores[c] >= scores[d]
         IN  <<best>> \o sorted_categories(scores, left \ {best})

\* The n categories of highest score (sorted(..., reverse=True)[:n]).
top_categories(scores, n) ==
    LET ranked == sorted_categories(scores, DOMAIN scores)
    IN  Range(SubSeq(ranked, 1, Min(n, Len(ranked))))

\* _calculate_category_affinity: category -> round(0.6 * share of the
\* categorised events + 0.4 * share of the categorised spend, 3), the ten
\* highest kept; the empty dict when there is no category column, no
\* categorised event, or when anything raises.  A sum of nulls that is None
\* makes the comparison / division of the spend raise.  The shares are
\* truncated to 1e-4 before they are blended.
_calculate_category_affinity(user_events, nulls) ==
    IF "category" \notin columns(user_events) THEN <<>>
    ELSE LET valid == valid_events_of(user_events)
             cats == {valid[k].category[1] : k \in 1..Len(valid)}
             spent_in(c) ==
                drop_nulls(column_of(SelectSeq(valid, LAMBDA e : e.category[1] = c),
                                     "price_fixed"))
             count_in(c) == Len(SelectSeq(valid, LAMBDA e : e.category[1] = c))
             total_user_spent == SumOver(drop_nulls(column_of(valid, "price_fixed")))
             raises == \/ "price_fixed" \notin columns(valid)
                       \/ nulls = "none" /\ \E c \in cats : spent_in(c) = <<>>
             score(c) ==
                LET interaction_ratio == (count_in(c) * 10000) \div Len(valid)
                    spending_ratio ==
                        IF total_user_spent > 0
                        THEN (SumOver(spent_in(c)) * 10000) \div total_user_spent
                        ELSE 0
                IN  (((6 * interaction_ratio + 4 * spending_ratio) + 50) \div 100) * 10
             scores == [c \in cats |-> score(c)]
         IN  IF valid = <<>> THEN <<>>
             ELSE IF raises THEN <<>>
             ELSE [c \in top_categories(scores, TopCategories) |-> scores[c]]

RECURSIVE insert_ascending(_, _)
insert_ascending(sorted, x) ==
    IF sorted = <<>> THEN <<x>>
    ELSE IF Head(sorted) <= x THEN <<Head(sorted)>> \o insert_ascending(Tail(sorted), x)
    ELSE <<x>> \o sorted

RECURSIVE sort_ascending(_)
sort_ascending(values) ==
    IF values = <<>> THEN <<>>
    ELSE insert_ascending(sort_ascending(Tail(values)), Head(values))

\* np.diff of a sorted sequence.
diffs_of(sorted) == [k \in 1..(Len(sorted) - 1) |-> sorted[k + 1] - sorted[k]]

RECURSIVE SumSquares(_)
SumSquares(values) ==
    IF values = <<>> THEN 0 ELSE Head(values) * Head(values) + SumSquares(Tail(values))

temporal_defaults == [temporal_consistency |-> 5000, activity_duration_days |-> 0]

\* _analyze_temporal_patterns.  With a null timestamp in the column sort()
\* puts it first, dates[0] is None and the computation of the consistency
\* raises (0.5); with nulls only, max() - min() raises too (0 days).
\* temporal_consistency = 1 / (1 + std of the gaps in days), the standard
\* deviation (np.std, population) truncated to a tenth of a day.
_analyze_temporal_patterns(user_events) ==
    IF "timestamp" \notin columns(user_events) THEN temporal_defaults
    ELSE LET cells == column_of(user_events, "timestamp")
             stamps == sort_ascending(drop_nulls(cells))
             duration_days == IF stamps = <<>> THEN 0
                              ELSE stamps[Len(stamps)] - stamps[1]
             gaps == diffs_of(stamps)
             k == Len(gaps)
             spread == k * SumSquares(gaps) - SumOver(gaps) * SumOver(gaps)
             std_tenths == isqrt((spread * 100) \div (k * k))
             consistency ==
                IF \E i \in 1..Len(cells) : is_null(cells[i]) THEN 5000
                ELSE IF k > 0 THEN 100000 \div (10 + std_tenths)
                ELSE 5000
         IN  IF Len(cells) < 2 THEN temporal_defaults
             ELSE [ temporal_consistency |-> Min(consistency, 10000),
                    activity_duration_days |-> duration_days ]

\* _calculate_profile_completeness.  raised: the price check compared a
\* None (the sum of a column of nulls, where sum() gives None) with 0.
_calculate_profile_completeness(user_events, nulls) ==
    LET has_price == "price_fixed" \in columns(user_events)
        prices == IF has_price THEN drop_nulls(column_of(user_events, "price_fixed"))
                  ELSE <<>>
        events_factor == IF height(user_events) >= 5 THEN 3000 ELSE 0
        price_factor == IF has_price /\ SumOver(prices) > 0 THEN 3000 ELSE 0
        category_factor ==
            IF "category" \in columns(user_events)
               /\ n_unique(column_of(user_events, "category")) >= 2
            THEN 2000 ELSE 0
        timestamp_factor ==
            IF "timestamp" \in columns(user_events)
               /\ n_unique(column_of(user_events, "timestamp")) >= 3
            THEN 2000 ELSE 0
    IN  [ raised |-> has_price /\ prices = <<>> /\ nulls = "none",
          value |-> events_factor + price_factor + category_factor + timestamp_factor ]

events_of_user(events, user_id) == SelectSeq(events, LAMBDA e : e.user_id = user_id)

\* Variant of _create_single_user_profile that counts the interactions from
\* zero (total_interactions = height - 1).
_create_single_user_profile_counting_from_zero(user_id, enriched, nulls) ==
    LET user_events == events_of_user(enriched, user_id)
        completeness == _calculate_profile_completeness(user_events, nulls)
    IN  IF height(user_events) = 0
        THEN [found |-> FALSE, raised |-> FALSE, profile |-> <<>>]
        ELSE IF completeness.raised
        THEN [found |-> TRUE, raised |-> TRUE, profile |-> <<>>]
        ELSE [ found |-> TRUE, raised |-> FALSE,
               profile |->
                  [user_id |-> user_id]
                  @@ _calculate_spending_metrics(user_events)
                  @@ _calculate_behavioral_metrics(user_events)
                  @@ [category_affinity |->
                         _calculate_category_affinity(user_events, nulls)]
                  @@ _analyze_temporal_patterns(user_events)
                  @@ [ total_interactions |-> height(user_events) - 1,
                       profile_completeness |-> completeness.value ] ]

\* _create_single_user_profile: [found, raised, profile].  The code returns
\* None when the user has no event (found = FALSE) and when anything raised
\* inside its try block (raised = TRUE), the profile otherwise.
_create_single_user_profile(user_id, enriched, nulls) ==
    LET user_events == events_of_user(enriched, user_id)
        completeness == _calculate_profile_completeness(user_events, nulls)
    IN  IF height(user_events) = 0
        THEN [found |-> FALSE, raised |-> FALSE, profile |-> <<>>]
        ELSE IF completeness.raised
        THEN [found |-> TRUE, raised |-> TRUE, profile |-> <<>>]
        ELSE [ found |-> TRUE, raised |-> FALSE,
               profile |->
                  [user_id |-> user_id]
                  @@ _calculate_spending_metrics(user_events)
                  @@ _calculate_behavioral_metrics(user_events)
                  @@ [category_affinity |->
                         _calculate_category_affinity(user_events, nulls)]
                  @@ _analyze_temporal_patterns(user_events)
                  @@ [ total_interactions |-> height(user_events),
                       profile_completeness |-> completeness.value ] ]

----------------------------------------------------------------------------
(* Specification of UserProfiler.create_user_profiles alone.  The roster   *)
(* users_df is an argument the code never reads.  User 1 has a history of  *)
(* 0 to MaxEvents events following an item pattern and a timestamp         *)
(* pattern; user 2 has none, one or two events; user 3 is in the roster    *)
(* only.  Item z is in no catalog.                                         *)

MaxEvents == 5

users_df == <<1, 2, 3>>

PricedCatalog ==
    << [item_id |-> "a", category |-> <<"electronics">>, subcategory |-> <<"phones">>,
        price_fixed |-> <<840>>],
       [item_id |-> "b", category |-> <<"books">>, subcategory |-> <<"fiction">>,
        price_fixed |-> <<12600>>],
       [item_id |-> "c", category |-> Null, subcategory |-> Null, price_fixed |-> Null],
       [item_id |-> "d", category |-> <<"toys">>, subcategory |-> Null,
        price_fixed |-> Null] >>

\* No price_fixed column: the code derives the prices from the categories.
UnpricedCatalog ==
    << [item_id |-> "a", category |-> <<"electronics">>, subcategory |-> <<"phones">>],
       [item_id |-> "b", category |-> <<"books">>, subcategory |-> <<"fiction">>],
       [item_id |-> "c", category |-> Null, subcategory |-> Null] >>

\* No subcategory column: the select before the join raises.
CatalogWithoutSubcategory ==
    << [item_id |-> "a", category |-> <<"electronics">>, price_fixed |-> <<840>>] >>

\* The catalog of scenario A: three electronics items priced 1000, 2000, 3000.
ScenarioACatalog ==
    << [item_id |-> "p1", category |-> <<"electronics">>, subcategory |-> <<"phones">>,
        price_fixed |-> <<1000>>],
       [item_id |-> "p2", category |-> <<"electronics">>, subcategory |-> <<"phones">>,
        price_fixed |-> <<2000>>],
       [item_id |-> "p3", category |-> <<"electronics">>, subcategory |-> <<"phones">>,
        price_fixed |-> <<3000>>] >>

WideItems == <<"m01", "m02", "m03", "m04", "m05", "m06", "m07", "m08", "m09", "m10", "m11">>

\* A catalog of TopCategories + 1 items, each in a category of its own, item
\* k priced 100 * k.
WideCatalog ==
    [k \in 1..(TopCategories + 1) |->
        [item_id |-> WideItems[k], category |-> <<WideItems[k]>>, subcategory |-> Null,
         price_fixed |-> <<100 * k>>]]

Catalogs ==
    {<<>>, PricedCatalog, UnpricedCatalog, CatalogWithoutSubcategory, ScenarioACatalog,
     WideCatalog}

ItemPatterns ==
    {"electronics", "alternating", "absent", "uncategorised", "one_known", "scenario_a",
     "unpriced"}

item_at(pattern, k) ==
    CASE pattern = "electronics" -> "a"
      [] pattern = "alternating" -> IF k % 2 = 1 THEN "a" ELSE "b"
      [] pattern = "absent" -> "z"
      [] pattern = "uncategorised" -> "c"
      [] pattern = "scenario_a" -> <<"p1", "p2", "p3">>[((k - 1) % 3) + 1]
      [] pattern = "unpriced" -> IF k % 2 = 1 THEN "d" ELSE "a"
      [] pattern = "halves" -> IF 2 * k <= StabilityEvents THEN "a" ELSE "b"
      [] pattern = "wide" -> WideItems[((k - 1) % (TopCategories + 1)) + 1]
      [] OTHER -> IF k = 1 THEN "a" ELSE "z"

TimePatterns == {"same_day", "daily", "irregular", "null", "first_missing"}

timestamp_at(pattern, k) ==
    CASE pattern = "same_day" -> <<1>>
      [] pattern = "daily" -> <<k>>
      [] pattern = "irregular" -> <<10 * k * k>>
      [] pattern = "null" -> Null
      [] pattern = "interleaved" ->
            IF 2 * k <= StabilityEvents THEN <<2 * k - 1>> ELSE <<2 * k - StabilityEvents>>
      [] OTHER -> IF k = 1 THEN Null ELSE <<k>>

history(user_id, n, items, times) ==
    [k \in 1..n |->
        [user_id |-> user_id, item_id |-> item_at(items, k),
         timestamp |-> timestamp_at(times, k)]]

Histories ==
    {history(1, n, items, times) :
        n \in 0..MaxEvents, items \in ItemPatterns, times \in TimePatterns}

OtherHistories ==
    {<<>>, history(2, 1, "electronics", "same_day"), history(2, 2, "alternating", "daily")}

\* Histories long enough for the halves to be compared and for the cut to
\* ten categories: the days of "interleaved" run 1, 3, 5, 7, 9, 2, 4, 6, 8, 10,
\* so the events do not arrive in the order of their timestamps.
LongHistories ==
    {history(1, StabilityEvents, items, times) :
        items \in {"electronics", "alternating", "halves", "absent"},
        times \in {"daily", "interleaved"}}
    \cup {history(1, TopCategories + 1, "wide", "daily")}

EventFrames == {h \o o : h \in Histories, o \in OtherHistories} \cup LongHistories

\* Series.unique() gives the distinct user ids in no particular order.
RECURSIVE orders_of(_)
orders_of(ids) ==
    IF ids = {} THEN {<<>>}
    ELSE UNION {{<<u>> \o rest : rest \in orders_of(ids \ {u})} : u \in ids}

\* The distinct user ids in the order of their first event, and that order
\* reversed.
first_appearance(events) ==
    LET firsts == SelectSeq([k \in 1..Len(events) |-> k],
                            LAMBDA k : \A j \in 1..(k - 1) :
                                          events[j].user_id # events[k].user_id)
    IN  [i \in 1..Len(firsts) |-> events[firsts[i]].user_id]

reversed(seq) == [i \in 1..Len(seq) |-> seq[Len(seq) + 1 - i]]

\* The orders Series.unique() may give: every order of a handful of ids;
\* of more ids than can be permuted, the order of first appearance and its
\* reverse.
unique_orders(events) ==
    LET ids == {events[k].user_id : k \in 1..Len(events)}
    IN  IF Cardinality(ids) <= MaxUsers + 1 THEN orders_of(ids)
        ELSE {first_appearance(events), reversed(first_appearance(events))}

\* Variant: every user of the events is taken.
sample_size_unlimited(users_from_events) == Cardinality(users_from_events)

\* sample_size = min(users_from_events.len(), 1000)
sample_size(users_from_events) == Min(Cardinality(users_from_events), SampleLimit)

InitProfile ==
    /\ is_trained = FALSE
    /\ pc = "profile_call"
    /\ use_ml = FALSE
    /\ user_profiles = <<>>
    /\ ml_outcomes = <<>>
    /\ recommendations = <<>>
    /\ tie_order = <<>>
    /\ strategy = ""
    /\ optimized = <<>>
    /\ outcome = "none"
    /\ profile = NoProfile
    /\ match = NoMatch
    /\ failed_users = <<>>
    /\ log = <<>>
    /\ events_df \in EventFrames
    /\ items_df \in Catalogs
    /\ enriched_events = <<>>
    /\ sample_users = <<>>
    /\ processed = 0
    /\ sum_of_nulls \in {"zero", "none"}
    /\ EngineIdle

\* The lines _enrich_events_with_item_data prints besides its progress.
enrich_log(events, items) ==
    IF height(events) = 0 \/ height(items) = 0 THEN <<<<"nothing_to_enrich">>>>
    ELSE IF ~({"item_id", "category", "subcategory"} \subseteq columns(items))
         THEN <<<<"enrich_error">>>>
    ELSE <<>>

\* create_user_profiles up to its loop: the two early returns, the join, the
\* choice of the users to profile (at most 1000).
EnrichEvents ==
    /\ pc = "profile_call"
    /\ IF height(events_df) = 0
       THEN /\ pc' = "profiled"
            /\ outcome' = "ok"
            /\ log' = Append(log, <<"no_events">>)
            /\ UNCHANGED <<enriched_events, sample_users>>
       ELSE LET enriched == _enrich_events_with_item_data(events_df, items_df)
                users_from_events == {enriched[k].user_id : k \in 1..Len(enriched)}
            IN  /\ enriched_events' = enriched
                /\ IF height(enriched) = 0
                   THEN /\ pc' = "profiled"
                        /\ outcome' = "ok"
                        /\ log' = log \o enrich_log(events_df, items_df)
                                      \o <<<<"enrich_failed">>>>
                        /\ UNCHANGED sample_users
                   ELSE /\ pc' = "profiling"
                        /\ \E order \in unique_orders(enriched) :
                              sample_users' =
                                 SubSeq(order, 1, sample_size(users_from_events))
                        /\ log' = log \o enrich_log(events_df, items_df)
                                      \o <<<<"users_for_analysis",
                                             Cardinality(users_from_events)>>>>
                        /\ UNCHANGED outcome
    /\ UNCHANGED <<is_trained, use_ml, user_profiles, ml_outcomes, recommendations,
                   tie_order, strategy, optimized, profile, match, failed_users,
                   events_df, items_df, processed, sum_of_nulls, engine_vars>>

\* Variant of ProfileUser in which a failure ends the batch: the users after
\* the failing one are not profiled.
ProfileUser_aborting ==
    /\ pc = "profiling"
    /\ processed < Len(sample_users)
    /\ LET user_id == sample_users[processed + 1]
           result == _create_single_user_profile(user_id, enriched_events, sum_of_nulls)
       IN  /\ user_profiles' =
                 IF result.found /\ ~result.raised
                 THEN Append(user_profiles, result.profile) ELSE user_profiles
           /\ failed_users' =
                 IF result.raised THEN Append(failed_users, user_id) ELSE failed_users
           /\ log' = IF result.raised THEN Append(log, <<"profile_error", user_id>>)
                     ELSE log
           /\ processed' = IF result.raised THEN Len(sample_users) ELSE processed + 1
    /\ UNCHANGED <<is_trained, pc, use_ml, ml_outcomes, recommendations, tie_order,
                   strategy, optimized, outcome, profile, match, events_df, items_df,
                   enriched_events, sample_users, sum_of_nulls, engine_vars>>

\* One iteration of the loop over sample_users.
ProfileUser ==
    /\ pc = "profiling"
    /\ processed < Len(sample_users)
    /\ LET user_id == sample_users[processed + 1]
           result == _create_single_user_profile(user_id, enriched_events, sum_of_nulls)
       IN  /\ user_profiles' =
                 IF result.found /\ ~result.raised
                 THEN Append(user_profiles, result.profile) ELSE user_profiles
           /\ failed_users' =
                 IF result.raised THEN Append(failed_users, user_id) ELSE failed_users
           /\ log' = IF result.raised THEN Append(log, <<"profile_error", user_id>>)
                     ELSE log
    /\ processed' = processed + 1
    /\ UNCHANGED <<is_trained, pc, use_ml, ml_outcomes, recommendations, tie_order,
                   strategy, optimized, outcome, profile, match, events_df, items_df,
                   enriched_events, sample_users, sum_of_nulls, engine_vars>>

\* The loop ends: the profiles (or an empty DataFrame) are returned.
FinishProfiles ==
    /\ pc = "profiling"
    /\ processed = Len(sample_users)
    /\ pc' = "profiled"
    /\ outcome' = "ok"
    /\ log' = Append(log, <<"profiles_created", Len(user_profiles)>>)
    /\ UNCHANGED <<is_trained, use_ml, user_profiles, ml_outcomes, recommendations,
                   tie_order, strategy, optimized, profile, match, failed_users,
                   profiler_vars, engine_vars>>

NextProfile == EnrichEvents \/ ProfileUser \/ FinishProfiles

SpecProfile == InitProfile /\ [][NextProfile]_vars

\* One run over more users than the limit: SampleLimit + 1 users with one
\* event each, the first of them with a second event at the end.
ManyUsersEvents ==
    [k \in 1..(SampleLimit + 2) |->
        [user_id |-> IF k <= SampleLimit + 1 THEN k ELSE 1,
         item_id |-> "a", timestamp |-> <<k>>]]

InitSample ==
    /\ is_trained = FALSE
    /\ pc = "profile_call"
    /\ use_ml = FALSE
    /\ user_profiles = <<>>
    /\ ml_outcomes = <<>>
    /\ recommendations = <<>>
    /\ tie_order = <<>>
    /\ strategy = ""
    /\ optimized = <<>>
    /\ outcome = "none"
    /\ profile = NoProfile
    /\ match = NoMatch
    /\ failed_users = <<>>
    /\ log = <<>>
    /\ events_df = ManyUsersEvents
    /\ items_df = PricedCatalog
    /\ enriched_events = <<>>
    /\ sample_users = <<>>
    /\ processed = 0
    /\ sum_of_nulls = "zero"
    /\ EngineIdle

SpecSample == InitSample /\ [][NextProfile]_vars

\* The two batch loops side by side: a run is one call of
\* create_user_profiles or one use of the ProductMatcher.
InitBatch == InitProfile \/ Init

NextBatch == NextProfile \/ Next

SpecBatch == InitBatch /\ [][NextBatch]_vars

----------------------------------------------------------------------------
(* utils/metrics.py: RecommendationMetrics.  A frame is a sequence of rows; *)
(* pl.DataFrame() is the empty sequence and has no column.  Rates and      *)
(* averages are in units of 1e-4 like the scores; round(x, 3) rounds half  *)
(* up.  The standard deviations and quantiles of the distribution group    *)
(* are computed by the code and reported, but their values are not         *)
(* modelled; what is modelled is that Series.std() of a single value is    *)
(* None, which float() rejects with TypeError.                             *)

\* round(a / b, 3) of a ratio of non-negative integers, in units of 1e-4.
ratio3(a, b) == ((2000 * a + b) \div (2 * b)) * 10

\* round(a / b, 2), in units of 1e-2.
ratio2(a, b) == (200 * a + b) \div (2 * b)

\* round(mean, 3) of a sequence of values given in units of 1e-4.
mean3(values) == ((2 * SumOver(values) + 10 * Len(values)) \div (20 * Len(values))) * 10

count_where(frame, Test(_)) == Len(SelectSeq(frame, Test))

\* recommendations.group_by('user_id').agg(pl.count()): rows per user.
rec_counts(recs) ==
    [u \in {recs[k].user_id : k \in 1..Len(recs)} |->
        Len(SelectSeq(recs, LAMBDA r : r.user_id = u))]

_calculate_coverage_metrics(recs, profiles) ==
    IF height(recs) = 0
    THEN [ user_coverage_rate |-> 0, total_users_covered |-> 0,
           avg_recommendations_per_user |-> 0,
           users_with_multiple_recommendations |-> 0, coverage_quality |-> "low" ]
    ELSE LET total_users == height(profiles)
             counts == rec_counts(recs)
             users_with_recs == Cardinality(DOMAIN counts)
         IN  [ user_coverage_rate |->
                  IF total_users > 0 THEN ratio3(users_with_recs, total_users) ELSE 0,
               total_users_covered |-> users_with_recs,
               avg_recommendations_per_user |-> ratio2(Len(recs), users_with_recs),
               users_with_multiple_recommendations |->
                  Cardinality({u \in DOMAIN counts : counts[u] > 1}),
               coverage_quality |->
                  IF total_users > 0 /\ 10 * users_with_recs > 7 * total_users THEN "high"
                  ELSE IF total_users > 0 /\ 10 * users_with_recs > 4 * total_users
                       THEN "medium"
                  ELSE "low" ]

\* match_score is read when the frame has that column; otherwise a series of
\* 0.5 stands in for it.
match_scores_of(recs) ==
    IF "match_score" \in columns(recs) THEN column_of(recs, "match_score")
    ELSE [k \in 1..Len(recs) |-> 5000]

\* Variant: the stand-in series of 0.5 is also what an empty frame averages to.
_calculate_relevance_metrics_unguarded(recs) ==
    [ avg_match_score |-> 5000, avg_final_score |-> 5000, high_confidence_rate |-> 0,
      confidence_distribution |-> [very_high |-> 0, high |-> 0, medium |-> 0, low |-> 0],
      relevance_quality |-> "medium" ]

_calculate_relevance_metrics(recs) ==
    IF height(recs) = 0
    THEN [ avg_match_score |-> 0, avg_final_score |-> 0, high_confidence_rate |-> 0,
           confidence_distribution |-> <<>>, relevance_quality |-> "low" ]
    ELSE LET has_match == "match_score" \in columns(recs)
             match_scores == match_scores_of(recs)
             final_scores == IF "final_score" \in columns(recs)
                             THEN column_of(recs, "final_score") ELSE match_scores
             n == Len(recs)
             above(x) == Len(SelectSeq(match_scores, LAMBDA v : v > x))
         IN  [ avg_match_score |-> mean3(match_scores),
               avg_final_score |-> mean3(final_scores),
               high_confidence_rate |-> IF has_match THEN ratio3(above(7000), n) ELSE 0,
               confidence_distribution |->
                  IF has_match
                  THEN [ very_high |-> above(8000),
                         high |-> above(6000) - above(8000),
                         medium |-> above(4000) - above(6000),
                         low |-> n - above(4000) ]
                  ELSE [ very_high |-> 0, high |-> 0, medium |-> 0, low |-> n ],
               relevance_quality |->
                  IF SumOver(match_scores) > 6000 * n THEN "high"
                  ELSE IF SumOver(match_scores) > 4000 * n THEN "medium"
                  ELSE "low" ]

\* The number of rows of each product type.
type_counts(recs) ==
    [t \in {recs[k].product_type : k \in 1..Len(recs)} |->
        Len(SelectSeq(recs, LAMBDA r : r.product_type = t))]

RECURSIVE SumOfSquares(_, _)
SumOfSquares(f, left) ==
    IF left = {} THEN 0
    ELSE LET x == CHOOSE y \in left : TRUE
         IN  f[x] * f[x] + SumOfSquares(f, left \ {x})

_calculate_diversity_metrics(recs) ==
    IF height(recs) = 0
    THEN [ product_diversity_score |-> 0, diversity_index |-> 0,
           unique_products_recommended |-> 0, product_type_distribution |-> <<>>,
           diversity_quality |-> "low" ]
    ELSE LET total == Len(recs)
             unique_products ==
                IF "product_id" \in columns(recs)
                THEN Cardinality({recs[k].product_id : k \in 1..total}) ELSE 0
             has_type == "product_type" \in columns(recs)
             counts == IF has_type THEN type_counts(recs) ELSE <<>>
             \* 1 - sum((count / total) ** 2), as a ratio over total ** 2
             spread == IF has_type
                       THEN total * total - SumOfSquares(counts, DOMAIN counts) ELSE 0
         IN  [ unique_products_recommended |-> unique_products,
               product_diversity_score |-> ratio3(unique_products, total),
               diversity_index |-> ratio3(spread, total * total),
               product_type_distribution |-> counts,
               diversity_quality |->
                  IF 10 * spread > 7 * total * total THEN "high"
                  ELSE IF 10 * spread > 4 * total * total THEN "medium"
                  ELSE "low" ]

_estimate_revenue_impact(recs) ==
    IF height(recs) = 0
    THEN [ estimated_total_impact |-> 0, estimated_impact_per_user |-> 0,
           impact_confidence |-> "low" ]
    ELSE LET has_final == "final_score" \in columns(recs)
             high_value_recs ==
                IF has_final THEN count_where(recs, LAMBDA r : r.final_score > 6000) ELSE 0
             medium_value_recs ==
                IF has_final
                THEN count_where(recs, LAMBDA r : r.final_score > 4000
                                                  /\ r.final_score <= 6000)
                ELSE Len(recs) \div 2
             \* 50000 * 0.3 and 15000 * 0.15, in hundredths of the currency
             estimated_impact == high_value_recs * 1500000 + medium_value_recs * 225000
             unique_users == Cardinality({recs[k].user_id : k \in 1..Len(recs)})
         IN  [ estimated_total_impact |-> estimated_impact,
               estimated_impact_per_user |->
                  IF unique_users > 0
                  THEN (2 * estimated_impact + unique_users) \div (2 * unique_users)
                  ELSE 0,
               impact_confidence |->
                  IF high_value_recs > medium_value_recs THEN "high" ELSE "medium" ]

\* business_value * final_score of every row, in units of 1e-6 (the scores
\* the frames carry have three decimals, so the product is exact).
value_products(recs) ==
    LET business_values == IF "business_value" \in columns(recs)
                           THEN column_of(recs, "business_value")
                           ELSE [k \in 1..Len(recs) |-> 5000]
        final_scores == IF "final_score" \in columns(recs)
                        THEN column_of(recs, "final_score") ELSE business_values
    IN  [k \in 1..Len(recs) |-> (business_values[k] * final_scores[k]) \div 100]

_calculate_business_metrics(recs) ==
    IF height(recs) = 0
    THEN [ total_business_value |-> 0, avg_business_value_per_rec |-> 0,
           premium_recommendations_rate |-> 0, expected_conversion_rate |-> 0,
           estimated_revenue_impact |-> [estimated_total_impact |-> 0],
           business_impact |-> "low" ]
    ELSE LET products == value_products(recs)
             n == Len(recs)
             final_scores == IF "final_score" \in columns(recs)
                             THEN column_of(recs, "final_score")
                             ELSE IF "business_value" \in columns(recs)
                                  THEN column_of(recs, "business_value")
                                  ELSE [k \in 1..n |-> 5000]
         IN  [ total_business_value |-> ((SumOver(products) + 50) \div 100) * 10,
               avg_business_value_per_rec |->
                  ((2 * SumOver(products) + 1000 * n) \div (2000 * n)) * 10,
               premium_recommendations_rate |->
                  IF "business_value" \in columns(recs)
                  THEN ratio3(count_where(recs, LAMBDA r : r.business_value > 8000), n)
                  ELSE 0,
               expected_conversion_rate |->
                  ((6 * SumOver(final_scores) + 100 * n) \div (200 * n)) * 10,
               estimated_revenue_impact |-> _estimate_revenue_impact(recs),
               business_impact |->
                  IF SumOver(products) > 600000 * n THEN "high"
                  ELSE IF SumOver(products) > 400000 * n THEN "medium"
                  ELSE "low" ]

\* _calculate_distribution_metrics: float(score_data.std()) raises TypeError
\* when the frame has one row, float(rec_count_data.std()) when it has one
\* user.  raised is not a key of the dict: it records that the call raised.
_calculate_distribution_metrics(recs) ==
    IF height(recs) = 0
    THEN [ raised |-> FALSE, score_distribution |-> <<>>, user_distribution |-> <<>> ]
    ELSE LET counts == rec_counts(recs)
             users == DOMAIN counts
             finals == IF "final_score" \in columns(recs)
                       THEN column_of(recs, "final_score") ELSE <<>>
             std_is_none == \/ finals # <<>> /\ Len(finals) = 1
                            \/ Cardinality(users) = 1
         IN  IF std_is_none
             THEN [ raised |-> TRUE, score_distribution |-> <<>>,
                    user_distribution |-> <<>> ]
             ELSE [ raised |-> FALSE,
                    score_distribution |->
                       [ mean |-> IF finals = <<>> THEN 0 ELSE mean3(finals),
                         min |-> IF finals = <<>> THEN 0
                                 ELSE CHOOSE v \in Range(finals) :
                                          \A w \in Range(finals) : v <= w,
                         max |-> IF finals = <<>> THEN 0
                                 ELSE CHOOSE v \in Range(finals) :
                                          \A w \in Range(finals) : v >= w ],
                    user_distribution |->
                       [ avg_recs_per_user |-> ratio2(Len(recs), Cardinality(users)),
                         max_recs_to_user |->
                            CHOOSE c \in {counts[u] : u \in users} :
                                \A u \in users : counts[u] <= c,
                         users_with_1_rec |-> Cardinality({u \in users : counts[u] = 1}),
                         users_with_3plus_recs |->
                            Cardinality({u \in users : counts[u] >= 3}) ] ]

\* Variant: the business component taken without the factor 2.
_calculate_overall_score_plain(m) ==
    LET weighted == 25 * m.coverage.user_coverage_rate
                    + 35 * m.relevance.avg_match_score
                    + 20 * m.diversity.diversity_index
                    + 20 * Min(m.business.avg_business_value_per_rec, 10000)
    IN  [ overall_score |-> ((weighted + 500) \div 1000) * 10,
          quality_rating |->
             IF weighted > 700000 THEN "excellent"
             ELSE IF weighted > 500000 THEN "good"
             ELSE IF weighted > 300000 THEN "fair"
             ELSE "poor" ]

\* 0.25 * coverage + 0.35 * relevance + 0.20 * diversity + 0.20 * min(2 *
\* business, 1); weighted is the sum in units of 1e-6.
_calculate_overall_score(m) ==
    LET business_score == Min(m.business.avg_business_value_per_rec * 2, 10000)
        weighted == 25 * m.coverage.user_coverage_rate
                    + 35 * m.relevance.avg_match_score
                    + 20 * m.diversity.diversity_index
                    + 20 * business_score
    IN  [ overall_score |-> ((weighted + 500) \div 1000) * 10,
          quality_rating |->
             IF weighted > 700000 THEN "excellent"
             ELSE IF weighted > 500000 THEN "good"
             ELSE IF weighted > 300000 THEN "fair"
             ELSE "poor",
          component_scores |->
             [ coverage |-> m.coverage.user_coverage_rate,
               relevance |-> m.relevance.avg_match_score,
               diversity |-> m.diversity.diversity_index,
               business |-> business_score ] ]

\* The report returned when a metric group raised.
_get_basic_metrics(recs, profiles) ==
    LET unique_users == IF height(recs) > 0
                        THEN Cardinality({recs[k].user_id : k \in 1..Len(recs)}) ELSE 0
        total_users == height(profiles)
    IN  [ coverage |->
             [ user_coverage_rate |->
                  IF total_users > 0 THEN (unique_users * 10000) \div total_users ELSE 0,
               total_users_covered |-> unique_users ],
          relevance |-> [avg_match_score |-> 5000, high_confidence_rate |-> 0],
          diversity |-> [product_diversity_score |-> 0, diversity_index |-> 0],
          business |-> [avg_business_value_per_rec |-> 5000],
          distribution |->
             [ score_distribution |-> [mean |-> 5000],
               user_distribution |-> [avg_recs_per_user |-> 0] ],
          overall_score |-> [overall_score |-> 5000, quality_rating |-> "fair"] ]

calculate_all_metrics(recs, profiles) ==
    LET distribution == _calculate_distribution_metrics(recs)
        groups == [ coverage |-> _calculate_coverage_metrics(recs, profiles),
                    relevance |-> _calculate_relevance_metrics(recs),
                    diversity |-> _calculate_diversity_metrics(recs),
                    business |-> _calculate_business_metrics(recs) ]
    IN  IF distribution.raised
        THEN _get_basic_metrics(recs, profiles)
        ELSE [ coverage |-> groups.coverage,
               relevance |-> groups.relevance,
               diversity |-> groups.diversity,
               business |-> groups.business,
               distribution |->
                  [ score_distribution |-> distribution.score_distribution,
                    user_distribution |-> distribution.user_distribution ],
               overall_score |-> _calculate_overall_score(groups) ]

----------------------------------------------------------------------------
(* Specification of the metrics alone: calculate_all_metrics on the empty  *)
(* frame and on every candidate frame of up to MaxCands rows, against a    *)
(* profile frame of 0 to MaxUsers rows.                                    *)

profile_frame(n) == [u \in 1..n |-> LowProfile(u)]

InitMetrics ==
    /\ is_trained = FALSE
    /\ pc = "metrics_call"
    /\ use_ml = FALSE
    /\ user_profiles \in {profile_frame(n) : n \in 0..MaxUsers}
    /\ ml_outcomes = <<>>
    /\ recommendations \in {<<>>} \cup {frame_of(layout) : layout \in FrameLayouts}
    /\ tie_order = <<>>
    /\ strategy = ""
    /\ optimized = <<>>
    /\ outcome = "none"
    /\ profile = NoProfile
    /\ match = NoMatch
    /\ failed_users = <<>>
    /\ log = <<>>
    /\ ProfilerIdle
    /\ EngineIdle

CalculateAllMetrics ==
    /\ pc = "metrics_call"
    /\ pc' = "metrics_done"
    /\ metrics' = calculate_all_metrics(recommendations, user_profiles)
    /\ outcome' = "ok"
    /\ UNCHANGED <<is_trained, use_ml, user_profiles, ml_outcomes, recommendations,
                   tie_order, strategy, optimized, profile, match, failed_users, log,
                   profiler_vars, call_vars>>

NextMetrics == CalculateAllMetrics

SpecMetrics == InitMetrics /\ [][NextMetrics]_vars

----------------------------------------------------------------------------
(* Properties of the ScoringEngine (ProductMatcher), under Spec and        *)
(* SpecScoring.                                                            *)

\* The rows of `rows` that belong to user u, in order.
rows_of_user(rows, u) == SelectSeq(rows, LAMBDA r : r.user_id = u)

\* Every candidate of the i-th iterated user that passed the acceptance test,
\* in catalog order.
accepted_candidates(i) ==
    all_candidates(user_profiles[i], bank_products, use_ml, ml_outcomes[i])

ml_available == use_ml /\ is_trained

\* C1: every emitted ScoredCandidate has 0 <= final_score <= 1 and
\* 0 <= base_match_score <= 1, with or without the ML blend.
C1_ScoresInUnitInterval ==
    \A k \in 1..Len(recommendations) :
        /\ 0 <= recommendations[k].final_score
        /\ recommendations[k].final_score <= 10000
        /\ 0 <= recommendations[k].base_match_score
        /\ recommendations[k].base_match_score <= 10000

\* A blended candidate whose raw model output was 1.3 and whose rule score is
\* 1.0 has been emitted with final_score 1.0.
C1_Witness ==
    /\ pc = "matched"
    /\ \E i \in 1..Len(user_profiles) :
       \E r \in Range(rows_of_user(recommendations, i)) :
          /\ r.ml_enhanced
          /\ ~ml_outcomes[i].raises
          /\ ml_outcomes[i].raw[r.business_value] = 13000
          /\ r.base_match_score = 10000
          /\ r.final_score = 10000

RECURSIVE SumSeq(_)
SumSeq(s) == IF s = <<>> THEN 0 ELSE Head(s) + SumSeq(Tail(s))

\* The bonus of a two-tier signal.
tier_bonus(upper, upper_bonus, lower, lower_bonus) ==
    IF upper THEN upper_bonus ELSE IF lower THEN lower_bonus ELSE 0

\* The table of bonuses of the seven signals, in signal order.
awarded_bonuses(p) ==
    << tier_bonus(p.spending_level \in {"high", "very_high"}, 2000,
                  p.spending_level = "medium", 1000),
       tier_bonus(p.interaction_frequency \in {"high", "very_high"}, 1500,
                  p.interaction_frequency = "medium", 800),
       tier_bonus(p.total_spent > 50000, 1500, p.total_spent > 20000, 800),
       tier_bonus(p.avg_transaction_value > 10000, 1000,
                  p.avg_transaction_value > 5000, 500),
       tier_bonus(p.category_diversity > 3000, 1000, p.category_diversity > 1000, 500),
       tier_bonus(p.activity_duration_days > 180, 800,
                  p.activity_duration_days > 30, 400),
       tier_bonus(p.category_affinity # {}, 500, FALSE, 0) >>

\* The signal a reasoning entry speaks of.
signal_of_reason(text) ==
    CASE text \in {"spending_high", "spending_medium"} -> 1
      [] text \in {"activity_high", "activity_medium"} -> 2
      [] text \in {"total_spent_significant", "total_spent_notable"} -> 3
      [] text \in {"avg_check_high", "avg_check_above_average"} -> 4
      [] text \in {"interests_wide", "interests_diverse"} -> 5
      [] text \in {"activity_long", "activity_stable"} -> 6
      [] text = "has_category_affinity" -> 7
      [] OTHER -> 0

is_scenario_b(p) ==
    /\ p.spending_level = "very_high"
    /\ p.interaction_frequency = "high"
    /\ p.total_spent = 80000
    /\ p.avg_transaction_value = 12000
    /\ p.category_diversity = 4000
    /\ p.activity_duration_days = 200

\* C2: the rule score is min(1.0, 0.3 + the awarded bonuses), at most one tier
\* per signal; no signal gives exactly 0.3, scenario B exactly 1.0; reasoning
\* has one entry per awarded bonus, in signal order.
C2_RuleScore ==
    pc = "score_done" =>
        LET bonuses == awarded_bonuses(profile)
            awarded == {k \in 1..7 : bonuses[k] > 0}
            reasons == match.reasoning
        IN  /\ match.score = Min(10000, 3000 + SumSeq(bonuses))
            /\ (awarded = {} => match.score = 3000)
            /\ (is_scenario_b(profile) => match.score = 10000)
            /\ Len(reasons) = Cardinality(awarded)
            /\ {signal_of_reason(reasons[k]) : k \in 1..Len(reasons)} = awarded
            /\ \A k \in 1..(Len(reasons) - 1) :
                  signal_of_reason(reasons[k]) < signal_of_reason(reasons[k + 1])

\* Scenario B has been scored: 1.0, with six or seven reasons.
C2_Witness ==
    /\ pc = "score_done"
    /\ is_scenario_b(profile)
    /\ match.score = 10000
    /\ Len(match.reasoning) >= 6

\* C3: per user (whose scoring did not raise) at most 5 candidates, the 5 highest by final_score among the
\* accepted ones, in descending order, equal scores in catalog order, so that
\* the cut among equal scores is decided by catalog order.
C3_TopFiveStable ==
    \A i \in {k \in 1..Len(user_profiles) : k \notin Range(failed_users)} :
        LET rows == rows_of_user(recommendations, i)
            acc  == accepted_candidates(i)
            left_out == Range(acc) \ Range(rows)
        IN  /\ Len(rows) <= 5
            /\ Len(rows) = Min(5, Len(acc))
            /\ Range(rows) \subseteq Range(acc)
            /\ \A k \in 1..(Len(rows) - 1) :
                  /\ rows[k].final_score >= rows[k + 1].final_score
                  /\ rows[k].final_score = rows[k + 1].final_score
                        => ProductIndex(rows[k].product_id)
                              < ProductIndex(rows[k + 1].product_id)
            /\ \A a \in left_out : \A r \in Range(rows) :
                  /\ a.final_score <= r.final_score
                  /\ a.final_score = r.final_score
                        => ProductIndex(r.product_id) < ProductIndex(a.product_id)

\* A user with more than 5 accepted candidates whose fifth kept candidate ties
\* with one that was cut, and whose kept candidates differ in score.
C3_Witness ==
    /\ pc = "matched"
    /\ \E i \in 1..Len(user_profiles) :
          LET rows == rows_of_user(recommendations, i)
              acc  == accepted_candidates(i)
          IN  /\ Len(acc) > 5
              /\ Len(rows) = 5
              /\ rows[1].final_score > rows[5].final_score
              /\ \E a \in Range(acc) \ Range(rows) : a.final_score = rows[5].final_score

\* round(0.6 * base + 0.4 * prediction, 3)
blend_of(base, prediction) == ((6 * base + 4 * prediction + 50) \div 100) * 10

\* C4: with a trained model whose prediction succeeds, final = 0.6 * base +
\* 0.4 * prediction (to three decimals) and ml_enhanced; with no model, ML
\* disabled or a prediction that raises, final = base and not ml_enhanced;
\* the scoring operation returns normally.
C4_BlendOrSilentFallback ==
    /\ pc = "matched" => outcome = "ok"
    /\ \A i \in 1..Len(user_profiles) :
       \A r \in Range(rows_of_user(recommendations, i)) :
          IF ml_available /\ ~ml_outcomes[i].raises
          THEN /\ r.ml_enhanced
               /\ r.final_score =
                     blend_of(r.base_match_score,
                              clip(ml_outcomes[i].raw[r.business_value], 0, 10000))
          ELSE /\ ~r.ml_enhanced
               /\ r.final_score = r.base_match_score

\* The final score the engine computed for product `product` and the i-th user.
computed_final_score(i, product) ==
    LET m == _calculate_simple_product_match(user_profiles[i], product)
    IN  IF ml_available THEN optimize(m.score, ml_outcomes[i], product).value
        ELSE m.score

\* C5: a pair is in the output only with final_score > 0.2; a pair scoring
\* 0.2 or less is absent, and the operation still returns normally.
C5_AcceptanceThreshold ==
    /\ pc = "matched" => outcome = "ok"
    /\ \A k \in 1..Len(recommendations) : recommendations[k].final_score > 2000
    /\ \A i \in 1..Len(user_profiles) : \A n \in 1..Len(bank_products) :
          computed_final_score(i, bank_products[n]) <= 2000
             => ~\E r \in Range(rows_of_user(recommendations, i)) :
                    r.product_id = bank_products[n].id

\* A user all of whose pairs scored exactly 0.2 ended with no candidate, next
\* to a user who has candidates.
C5_Witness ==
    /\ pc = "matched"
    /\ \E i, j \in 1..Len(user_profiles) :
          /\ rows_of_user(recommendations, i) = <<>>
          /\ \A n \in 1..Len(bank_products) :
                computed_final_score(i, bank_products[n]) = 2000
          /\ rows_of_user(recommendations, j) # <<>>

----------------------------------------------------------------------------
(* Properties of the StrategyOptimizer, under SpecStrategy.                *)

applied(label) == pc = "strategy_done" /\ strategy = label

users_of(rows) == {rows[k].user_id : k \in 1..Len(rows)}

\* The row of `rows` for product pid (product ids are unique within a frame).
row_of_product(rows, pid) == CHOOSE r \in Range(rows) : r.product_id = pid

balanced_score_of(r) == (6 * r.final_score + 4 * r.business_value) \div 10

revenue_score_of(r) == (4 * r.final_score + 6 * r.business_value) \div 10

\* C6: coverage returns, for every user with a candidate, exactly one row: a
\* candidate of that user of maximal final_score; no other user appears.
C6_CoverageTopOne ==
    applied("coverage") =>
        /\ outcome = "ok"
        /\ users_of(optimized) = users_of(recommendations)
        /\ \A u \in users_of(recommendations) :
              LET given == rows_of_user(recommendations, u)
                  kept  == rows_of_user(optimized, u)
              IN  /\ Len(kept) = 1
                  /\ kept[1] \in Range(given)
                  /\ \A r \in Range(given) : r.final_score <= kept[1].final_score

\* Coverage has run on a frame in which one user has candidates of different
\* scores, two of them tied at the top, and another user has one candidate.
C6_Witness ==
    /\ applied("coverage")
    /\ \E u, v \in users_of(recommendations) :
          LET given == rows_of_user(recommendations, u)
          IN  /\ Len(given) >= 3
              /\ Len(rows_of_user(recommendations, v)) = 1
              /\ \E a, b, c \in Range(given) :
                    /\ a # b
                    /\ a.final_score = b.final_score
                    /\ c.final_score < a.final_score

\* C7: balanced returns, per user, the min(3, n) candidates of highest
\* balanced_score = 0.6 * final_score + 0.4 * business_value, in descending
\* order, the final_score of each row overwritten with its balanced_score.
C7_BalancedTopThree ==
    applied("balanced") =>
        /\ outcome = "ok"
        /\ users_of(optimized) = users_of(recommendations)
        /\ \A u \in users_of(recommendations) :
              LET given == rows_of_user(recommendations, u)
                  kept  == rows_of_user(optimized, u)
                  kept_ids == {kept[k].product_id : k \in 1..Len(kept)}
              IN  /\ Len(kept) = Min(3, Len(given))
                  /\ Cardinality(kept_ids) = Len(kept)
                  /\ \A k \in 1..Len(kept) :
                        /\ \E r \in Range(given) : r.product_id = kept[k].product_id
                        /\ kept[k].final_score =
                              balanced_score_of(row_of_product(given, kept[k].product_id))
                        /\ kept[k].business_value =
                              row_of_product(given, kept[k].product_id).business_value
                        /\ "balanced_score" \notin DOMAIN kept[k]
                  /\ \A k \in 1..(Len(kept) - 1) :
                        kept[k].final_score >= kept[k + 1].final_score
                  /\ \A r \in Range(given) : \A k \in 1..Len(kept) :
                        r.product_id \notin kept_ids
                           => balanced_score_of(r) <= kept[k].final_score

\* Balanced has run on a user with four candidates: three are kept, one is
\* cut, and a kept row's final_score differs from the one it came with.
C7_Witness ==
    /\ applied("balanced")
    /\ \E u \in users_of(recommendations) :
          LET given == rows_of_user(recommendations, u)
              kept  == rows_of_user(optimized, u)
          IN  /\ Len(given) = 4
              /\ Len(kept) = 3
              /\ kept[1].final_score > kept[3].final_score
              /\ \E k \in 1..3 :
                    kept[k].final_score
                       # row_of_product(given, kept[k].product_id).final_score

\* C8: revenue succeeds on every non-empty frame and returns, per user, one
\* row: the candidate of highest revenue_score = 0.4 * final_score + 0.6 *
\* business_value, whose final_score field holds that revenue_score.
C8_RevenueTopOne ==
    applied("revenue") =>
        /\ outcome = "ok"
        /\ users_of(optimized) = users_of(recommendations)
        /\ \A u \in users_of(recommendations) :
              LET given == rows_of_user(recommendations, u)
                  kept  == rows_of_user(optimized, u)
              IN  /\ Len(kept) = 1
                  /\ \E r \in Range(given) :
                        /\ r.product_id = kept[1].product_id
                        /\ kept[1].final_score = revenue_score_of(r)
                  /\ \A r \in Range(given) : revenue_score_of(r) <= kept[1].final_score

\* The frame of scenario C: one user, candidates (0.9, 0.2) and (0.5, 0.9).
is_scenario_c ==
    /\ Len(recommendations) = 2
    /\ recommendations[1].user_id = recommendations[2].user_id
    /\ \E first, second \in 1..2 :
          /\ recommendations[first].final_score = 9000
          /\ recommendations[first].business_value = 2000
          /\ recommendations[second].final_score = 5000
          /\ recommendations[second].business_value = 9000

scenario_c_first == CHOOSE r \in Range(recommendations) : r.final_score = 9000

scenario_c_second == CHOOSE r \in Range(recommendations) : r.final_score = 5000

\* The revenue_score the ranked frame of the revenue strategy carries for the
\* candidate with product pid.
ranked_revenue_score(pid) ==
    row_of_product(revenue_ranked(recommendations), pid).revenue_score

\* C9 as stated: in scenario C the revenue scores are 0.56 and 0.74 and the
\* second candidate is the row returned.
C9_ScenarioC_AsStated ==
    (applied("revenue") /\ is_scenario_c) =>
        /\ ranked_revenue_score(scenario_c_first.product_id) = 5600
        /\ ranked_revenue_score(scenario_c_second.product_id) = 7400
        /\ Len(optimized) = 1
        /\ optimized[1].product_id = scenario_c_second.product_id

\* C9 amended: in scenario C the revenue scores are 0.48 and 0.74 and the
\* second candidate is ranked first for the user by the revenue sort; the
\* aggregation that follows raises, so no row is returned.
C9_ScenarioC ==
    (applied("revenue") /\ is_scenario_c) =>
        /\ ranked_revenue_score(scenario_c_first.product_id) = 4800
        /\ ranked_revenue_score(scenario_c_second.product_id) = 7400
        /\ revenue_ranked(recommendations)[1].product_id = scenario_c_second.product_id
        /\ revenue_ranked(recommendations)[2].product_id = scenario_c_first.product_id
        /\ outcome = "DuplicateError"
        /\ optimized = <<>>

\* The revenue strategy has been applied to the frame of scenario C.
C9_Witness == applied("revenue") /\ is_scenario_c

\* C10: engagement and coverage select, for each user, the same single
\* (user_id, product_id) with the same final_score, ties included.
C10_EngagementEqualsCoverage ==
    applied("engagement") =>
        LET coverage == _optimize_for_coverage(recommendations).rows
        IN  /\ outcome = "ok"
            /\ users_of(optimized) = users_of(coverage)
            /\ users_of(optimized) = users_of(recommendations)
            /\ \A u \in users_of(recommendations) :
                  LET e == rows_of_user(optimized, u)
                      c == rows_of_user(coverage, u)
                  IN  /\ Len(e) = 1
                      /\ Len(c) = 1
                      /\ e[1].product_id = c[1].product_id
                      /\ e[1].final_score = c[1].final_score

\* Engagement has run on a frame where a user has two candidates tied at the
\* top score with different business values, and the sort did not leave the
\* tied rows in frame order.
C10_Witness ==
    /\ applied("engagement")
    /\ \E i, j \in 1..Len(recommendations) :
          /\ i < j
          /\ recommendations[i].user_id = recommendations[j].user_id
          /\ recommendations[i].final_score = recommendations[j].final_score
          /\ recommendations[i].business_value # recommendations[j].business_value
          /\ \A r \in Range(rows_of_user(recommendations, recommendations[i].user_id)) :
                r.final_score <= recommendations[i].final_score
          /\ tie_order[j] < tie_order[i]
          /\ \E r \in Range(optimized) : r.product_id = recommendations[j].product_id

\* C11: a label other than "coverage", "revenue" and "engagement" (unknown,
\* empty, differently cased) gives exactly the output of the balanced strategy
\* on the same candidates and does not raise.
C11_UnknownLabelIsBalanced ==
    (pc = "strategy_done" /\ strategy \notin {"coverage", "revenue", "engagement"}) =>
        /\ outcome = "ok"
        /\ optimized = _optimize_balanced(recommendations).rows
        /\ _apply_optimization_strategy(recommendations, strategy)
              = _apply_optimization_strategy(recommendations, "balanced")

\* The label "Coverage" has been applied to a frame on which the coverage and
\* the balanced strategy differ, and so have the empty and the unknown label.
C11_Witness ==
    /\ pc = "strategy_done"
    /\ strategy \in {"Coverage", "", "unknown"}
    /\ Len(recommendations) = 3
    /\ optimized # _optimize_for_coverage(recommendations).rows
    /\ Len(optimized) > Cardinality(users_of(recommendations))

----------------------------------------------------------------------------
(* Properties of the QualityEvaluator (RecommendationMetrics), under       *)
(* SpecMetrics.                                                            *)

evaluated == pc = "metrics_done"

\* C13: on an empty recommendation set the evaluation does not raise, every
\* metric group returns its zero default (coverage rate, average scores,
\* diversity, business value, revenue impact), overall_score is 0 with rating
\* "poor", and the report is not the error fallback (0.5 / "fair").
C13_EmptySetZeroDefaults ==
    (evaluated /\ recommendations = <<>>) =>
        /\ outcome = "ok"
        /\ metrics.coverage.user_coverage_rate = 0
        /\ metrics.coverage.total_users_covered = 0
        /\ metrics.relevance.avg_match_score = 0
        /\ metrics.relevance.avg_final_score = 0
        /\ metrics.diversity.product_diversity_score = 0
        /\ metrics.diversity.diversity_index = 0
        /\ metrics.business.total_business_value = 0
        /\ metrics.business.avg_business_value_per_rec = 0
        /\ metrics.business.estimated_revenue_impact.estimated_total_impact = 0
        /\ metrics.overall_score.overall_score = 0
        /\ metrics.overall_score.quality_rating = "poor"
        /\ metrics # _get_basic_metrics(recommendations, user_profiles)
        /\ ~_calculate_distribution_metrics(recommendations).raised

\* The empty recommendation set has been evaluated against an empty profile
\* set, where both denominators (rows, users) are zero.
C13_Witness ==
    /\ evaluated
    /\ recommendations = <<>>
    /\ user_profiles = <<>>
    /\ metrics.overall_score.quality_rating = "poor"

----------------------------------------------------------------------------
(* Properties of the UserProfiler.                                         *)

profiles_returned == pc = "profiled"

has_events(user_id) == \E k \in 1..Len(events_df) : events_df[k].user_id = user_id

profiled_users == {user_profiles[k].user_id : k \in 1..Len(user_profiles)}

\* C15: the profile set holds a profile only for users with at least one
\* event: a roster user without events never appears in it, and every
\* profile has total_interactions >= 1.
C15_OnlyUsersWithEvents ==
    /\ \A u \in Range(users_df) : ~has_events(u) => u \notin profiled_users
    /\ \A k \in 1..Len(user_profiles) :
          /\ has_events(user_profiles[k].user_id)
          /\ user_profiles[k].total_interactions >= 1

\* The profiles were returned for a batch in which user 2 has a single event
\* and users 1 and 3 have none: only user 2 has a profile.
C15_Witness ==
    /\ profiles_returned
    /\ ~has_events(1)
    /\ profiled_users = {2}
    /\ user_profiles[1].total_interactions = 1

\* The values a user's events carry in a column: nulls and a missing column
\* give none.
values_in(user_events, c) ==
    IF c \in columns(user_events)
    THEN Range(drop_nulls(column_of(user_events, c))) ELSE {}

resolved_spend(user_events) ==
    IF "price_fixed" \in columns(user_events)
    THEN SumOver(drop_nulls(column_of(user_events, "price_fixed"))) ELSE 0

four_presence_checks(user_events) ==
    (IF height(user_events) >= 5 THEN 3000 ELSE 0)
    + (IF resolved_spend(user_events) > 0 THEN 3000 ELSE 0)
    + (IF Cardinality(values_in(user_events, "category")) >= 2 THEN 2000 ELSE 0)
    + (IF Cardinality(values_in(user_events, "timestamp")) >= 3 THEN 2000 ELSE 0)

\* C16: profile_completeness of every profile is 0.3 for >= 5 events, plus
\* 0.3 for a summed resolved price > 0, plus 0.2 for events covering >= 2
\* categories, plus 0.2 for >= 3 distinct timestamps, and so lies in [0, 1].
C16_CompletenessIsFourChecks ==
    \A k \in 1..Len(user_profiles) :
       LET p == user_profiles[k]
       IN  /\ p.profile_completeness
                = four_presence_checks(events_of_user(enriched_events, p.user_id))
           /\ p.profile_completeness >= 0
           /\ p.profile_completeness <= 10000

NumericFields ==
    { "total_spent", "avg_transaction_value", "max_transaction", "spending_consistency",
      "category_diversity", "unique_categories_count", "preference_stability",
      "temporal_consistency", "activity_duration_days", "total_interactions",
      "profile_completeness" }

\* C17: every numeric field of every profile is present and holds a number,
\* whatever data is missing: all prices null, all categories null, a single
\* event, a missing timestamp, a join that added no attributes.
C17_NumericFieldsTotal ==
    \A k \in 1..Len(user_profiles) :
       \A f \in NumericFields :
          /\ f \in DOMAIN user_profiles[k]
          /\ user_profiles[k][f] \in Nat

\* A profile was returned for a user with a single event without timestamp
\* and an empty catalog, so the join added no attributes.
C17_Witness ==
    /\ profiles_returned
    /\ items_df = <<>>
    /\ \E k \in 1..Len(user_profiles) :
          LET user_events == events_of_user(events_df, user_profiles[k].user_id)
          IN  /\ height(user_events) = 1
              /\ is_null(user_events[1].timestamp)
              /\ "category" \notin columns(events_of_user(enriched_events,
                                                          user_profiles[k].user_id))

\* A profile was returned for a user all of whose prices and categories are
\* null after the join.
C17_WitnessAllNull ==
    /\ profiles_returned
    /\ \E k \in 1..Len(user_profiles) :
          LET user_events == events_of_user(enriched_events, user_profiles[k].user_id)
          IN  /\ "price_fixed" \in columns(user_events)
              /\ height(user_events) >= 2
              /\ values_in(user_events, "price_fixed") = {}
              /\ values_in(user_events, "category") = {}

events_enriched == pc \in {"profiling", "profiled"} /\ height(events_df) > 0

\* C19: the enrichment returns an empty sequence, and does not raise,
\* whenever the events or the catalog are empty.
C19_EmptyInputGivesEmpty ==
    /\ height(events_df) = 0 =>
          _enrich_events_with_item_data(events_df, items_df) = <<>>
    /\ (events_enriched /\ height(items_df) = 0) => enriched_events = <<>>

----------------------------------------------------------------------------
(* Properties of the two batch loops.                                      *)

matches_returned == pc = "matched"

\* The events of the batch without those of the users whose profile failed.
events_without_failed ==
    SelectSeq(events_df, LAMBDA e : e.user_id \notin Range(failed_users))

\* The profile a user gets when the failed users are not in the batch.
profile_without_failed(user_id) ==
    _create_single_user_profile(
        user_id, _enrich_events_with_item_data(events_without_failed, items_df),
        sum_of_nulls)

\* The candidates of the first k rows when the failed rows are not there.
RECURSIVE candidates_without_failed(_)
candidates_without_failed(k) ==
    IF k = 0 THEN <<>>
    ELSE candidates_without_failed(k - 1)
         \o (IF user_profiles[k].user_id \in Range(failed_users) THEN <<>>
             ELSE _get_enhanced_recommendations_for_user(
                     user_profiles[k], use_ml, ml_outcomes[k]))

\* A failing user is skipped and the others get what they would get without
\* that user, in both loops.
failed_user_skipped ==
    /\ (profiles_returned /\ events_enriched) =>
          /\ profiled_users \cap Range(failed_users) = {}
          /\ \A u \in Range(sample_users) \ Range(failed_users) :
                \E k \in 1..Len(user_profiles) :
                   /\ user_profiles[k].user_id = u
                   /\ profile_without_failed(u).found
                   /\ user_profiles[k] = profile_without_failed(u).profile
    /\ matches_returned =>
          recommendations = candidates_without_failed(Len(user_profiles))

batch_returned == (profiles_returned /\ events_enriched) \/ matches_returned

reported_to_caller ==
    LET errors == SelectSeq(log, LAMBDA l : l[1] \in {"profile_error", "user_error"})
        last == log[Len(log)]
    IN  /\ Len(errors) = Len(failed_users)
        /\ \A k \in 1..Len(errors) : errors[k][2] = failed_users[k]
        /\ profiles_returned => last = <<"profiles_created", Len(user_profiles)>>
        /\ matches_returned =>
              \/ recommendations = <<>> /\ last = <<"no_recommendations">>
              \/ /\ recommendations # <<>>
                 /\ last = <<"generated", Len(recommendations),
                             Len(user_profiles) - Len(failed_users)>>

C18_WitnessMatcher ==
    /\ matches_returned
    /\ Len(failed_users) = 1
    /\ Len(user_profiles) >= 2
    /\ recommendations # <<>>

----------------------------------------------------------------------------
(* AdvancedRecommendationEngine: generate_recommendations,                 *)
(* generate_strategy_comparison and run_complete_analysis, step by step.   *)
(* create_user_profiles is specified by SpecProfile; here the frame it     *)
(* returns for the inputs of the run is an input, the same at every call   *)
(* of the run, as are the rows on which the matcher's call raises and what *)
(* the fitted model predicts.  The engine always passes use_ml = True.     *)

strategies == <<"coverage", "revenue", "engagement", "balanced">>

EntryPoints ==
    {"generate_recommendations", "generate_strategy_comparison", "run_complete_analysis"}

\* The model outputs of a run: a failure inside predict, or one raw value
\* for every product.
EngineMLOutcomes ==
    {m \in MLOutcomes : m.raises \/ \A b, c \in BusinessValues : m.raw[b] = m.raw[c]}

RECURSIVE frames_of_height(_)
frames_of_height(n) ==
    IF n = 0 THEN {<<>>}
    ELSE {Append(f, p) : f \in frames_of_height(n - 1), p \in ProfileChoices(n)}

ProfileFrames == UNION {frames_of_height(n) : n \in 0..MaxUsers}

InitEngine ==
    /\ is_trained \in BOOLEAN
    /\ pc = "engine_call"
    /\ use_ml = TRUE
    /\ user_profiles \in ProfileFrames
    /\ ml_outcomes \in [1..Len(user_profiles) ->
                           IF is_trained THEN EngineMLOutcomes ELSE {NotConsulted}]
    /\ bad_rows \in SUBSET (1..Len(user_profiles))
    /\ recommendations = <<>>
    /\ tie_order = <<>>
    /\ entry \in EntryPoints
    /\ strategy \in (IF entry = "generate_recommendations" THEN Range(strategies) ELSE {""})
    /\ optimized = <<>>
    /\ outcome = "none"
    /\ profile = NoProfile
    /\ match = NoMatch
    /\ failed_users = <<>>
    /\ log = <<>>
    /\ ProfilerIdle
    /\ metrics = NoMetrics
    /\ strategies_left = <<>>
    /\ comparison_results = <<>>
    /\ best_strategy = NoBest
    /\ scored = 0

\* generate_strategy_comparison, lines 399-402: the list of strategies, the
\* empty result dict, the profiles.
BeginComparison ==
    /\ pc = "engine_call"
    /\ entry \in {"generate_strategy_comparison", "run_complete_analysis"}
    /\ pc' = "comparing"
    /\ strategies_left' = strategies
    /\ comparison_results' = <<>>
    /\ UNCHANGED <<is_trained, use_ml, user_profiles, ml_outcomes, recommendations,
                   tie_order, strategy, optimized, outcome, profile, match, failed_users,
                   log, profiler_vars, metrics, entry, best_strategy, scored, bad_rows>>

\* Who calls generate_recommendations next, and with which label.
in_comparison_loop == pc = "comparing" /\ strategies_left # <<>>

\* generate_recommendations, lines 36-42: the profiles are created; without
\* profiles an empty DataFrame is returned, otherwise the matcher is entered.
BeginGenerate ==
    /\ \/ pc = "engine_call" /\ entry = "generate_recommendations"
       \/ in_comparison_loop
       \/ pc = "best_chosen"
    /\ strategy' = IF in_comparison_loop THEN Head(strategies_left)
                   ELSE IF pc = "best_chosen" THEN best_strategy.strategy
                   ELSE strategy
    /\ recommendations' = <<>>
    /\ failed_users' = <<>>
    /\ scored' = 0
    /\ optimized' = <<>>
    /\ IF height(user_profiles) = 0
       THEN /\ pc' = "generated"
            /\ log' = Append(log, <<"no_profiles">>)
       ELSE /\ pc' = "scoring"
            /\ UNCHANGED log
    /\ UNCHANGED <<is_trained, use_ml, user_profiles, ml_outcomes, tie_order, outcome,
                   profile, match, profiler_vars, metrics, entry, strategies_left,
                   comparison_results, best_strategy, bad_rows>>

\* One iteration of the matcher's loop over the rows of user_profiles.
ScoreUser ==
    /\ pc = "scoring"
    /\ scored < Len(user_profiles)
    /\ LET k == scored + 1
           p == user_profiles[k]
       IN  IF k \in bad_rows
           THEN /\ failed_users' = Append(failed_users, p.user_id)
                /\ log' = Append(log, <<"user_error", p.user_id>>)
                /\ UNCHANGED recommendations
           ELSE /\ recommendations' =
                      recommendations
                      \o _get_enhanced_recommendations_for_user(p, use_ml, ml_outcomes[k])
                /\ UNCHANGED <<failed_users, log>>
    /\ scored' = scored + 1
    /\ UNCHANGED <<is_trained, pc, use_ml, user_profiles, ml_outcomes, tie_order, strategy,
                   optimized, outcome, profile, match, profiler_vars, metrics, entry,
                   strategies_left, comparison_results, best_strategy, bad_rows>>

\* The order in which the sort of this run leaves rows of equal key: the
\* frame order or its reverse.
EngineTieOrders(n) == {[i \in 1..n |-> i], [i \in 1..n |-> n + 1 - i]}

\* Variant of FinishScoring that hands the candidates on as soon as one row
\* has been dealt with.
FinishScoring_early ==
    /\ pc = "scoring"
    /\ scored >= 1
    /\ IF recommendations = <<>>
       THEN /\ pc' = "generated"
            /\ log' = log \o <<<<"no_recommendations">>, <<"no_recommendations_generated">>>>
            /\ UNCHANGED tie_order
       ELSE /\ pc' = "scored"
            /\ log' = Append(log, <<"generated", Len(recommendations),
                                    scored - Len(failed_users)>>)
            /\ tie_order' \in IF Len(tie_order) = Len(recommendations) THEN {tie_order}
                              ELSE EngineTieOrders(Len(recommendations))
    /\ UNCHANGED <<is_trained, use_ml, user_profiles, ml_outcomes, recommendations,
                   strategy, optimized, outcome, profile, match, failed_users,
                   profiler_vars, engine_vars>>

\* The matcher's loop is over (product_matcher.py:37-43) and
\* generate_recommendations looks at the result (lines 47-49): without
\* candidates an empty DataFrame is returned.
FinishScoring ==
    /\ pc = "scoring"
    /\ scored = Len(user_profiles)
    /\ IF recommendations = <<>>
       THEN /\ pc' = "generated"
            /\ log' = log \o <<<<"no_recommendations">>, <<"no_recommendations_generated">>>>
            /\ UNCHANGED tie_order
       ELSE /\ pc' = "scored"
            /\ log' = Append(log, <<"generated", Len(recommendations),
                                    scored - Len(failed_users)>>)
            /\ tie_order' \in IF Len(tie_order) = Len(recommendations) THEN {tie_order}
                              ELSE EngineTieOrders(Len(recommendations))
    /\ UNCHANGED <<is_trained, use_ml, user_profiles, ml_outcomes, recommendations,
                   strategy, optimized, outcome, profile, match, failed_users,
                   profiler_vars, engine_vars>>

\* generate_recommendations, lines 52-67: the strategy, outside any try, then
\* the validation, which only prints.
Optimize ==
    /\ pc = "scored"
    /\ LET result == _apply_optimization_strategy(recommendations, strategy)
       IN  IF result.error = "ok"
           THEN /\ optimized' = result.rows
                /\ pc' = "generated"
                /\ log' = Append(log, <<"recommendations", Len(result.rows)>>)
                /\ UNCHANGED outcome
           ELSE /\ pc' = "aborted"
                /\ outcome' = result.error
                /\ UNCHANGED <<optimized, log>>
    /\ UNCHANGED <<is_trained, use_ml, user_profiles, ml_outcomes, recommendations,
                   tie_order, strategy, profile, match, failed_users, profiler_vars,
                   engine_vars>>

\* generate_recommendations returns to the caller of the engine.
ReturnRecommendations ==
    /\ pc = "generated"
    /\ entry = "generate_recommendations"
    /\ pc' = "done"
    /\ outcome' = "ok"
    /\ UNCHANGED <<is_trained, use_ml, user_profiles, ml_outcomes, recommendations,
                   tie_order, strategy, optimized, profile, match, failed_users, log,
                   profiler_vars, engine_vars>>

in_comparison == pc = "generated" /\ strategies_left # <<>>

\* generate_strategy_comparison, line 410: a strategy that produced nothing
\* has no entry in the results.
SkipStrategy ==
    /\ in_comparison
    /\ height(optimized) = 0
    /\ pc' = "comparing"
    /\ strategies_left' = Tail(strategies_left)
    /\ UNCHANGED <<is_trained, use_ml, user_profiles, ml_outcomes, recommendations,
                   tie_order, strategy, optimized, outcome, profile, match, failed_users,
                   log, profiler_vars, metrics, entry, comparison_results, best_strategy,
                   scored, bad_rows>>

\* generate_strategy_comparison, lines 411-413: the metrics of the strategy.
Evaluate ==
    /\ in_comparison
    /\ height(optimized) > 0
    /\ pc' = "evaluated"
    /\ metrics' = calculate_all_metrics(optimized, user_profiles)
    /\ UNCHANGED <<is_trained, use_ml, user_profiles, ml_outcomes, recommendations,
                   tie_order, strategy, optimized, outcome, profile, match, failed_users,
                   log, profiler_vars, call_vars>>

\* A polars Series has len(), n_unique() and count(), and no length().
series_has_length == FALSE

\* generate_strategy_comparison, lines 414-418: the entry of the strategy;
\* recommendations['user_id'].unique().length() raises AttributeError.
RecordResult ==
    /\ pc = "evaluated"
    /\ IF series_has_length
       THEN /\ comparison_results' =
                  (strategy :> [ metrics |-> metrics,
                                 recommendation_count |-> height(optimized),
                                 unique_users |->
                                    Cardinality(Range(column_of(optimized, "user_id"))) ])
                  @@ comparison_results
            /\ strategies_left' = Tail(strategies_left)
            /\ pc' = "comparing"
            /\ UNCHANGED outcome
       ELSE /\ pc' = "aborted"
            /\ outcome' = "AttributeError"
            /\ UNCHANGED <<comparison_results, strategies_left>>
    /\ UNCHANGED <<is_trained, use_ml, user_profiles, ml_outcomes, recommendations,
                   tie_order, strategy, optimized, profile, match, failed_users, log,
                   profiler_vars, metrics, entry, best_strategy, scored, bad_rows>>

\* 10 * weighted_score of _select_best_strategy.
weighted_score(m) ==
    4 * m.business.avg_business_value_per_rec
    + 3 * m.coverage.user_coverage_rate
    + 3 * m.relevance.avg_match_score

\* Variant: of the strategies with the greatest score, the last in the order
\* of insertion.
RECURSIVE last_max(_, _)
last_max(names, results) ==
    IF Len(names) = 1 THEN Head(names)
    ELSE LET rest == last_max(Tail(names), results)
         IN  IF weighted_score(results[Head(names)].metrics)
                   > weighted_score(results[rest].metrics)
             THEN Head(names) ELSE rest

\* max(strategy_scores.items(), key=weighted_score): of the strategies with
\* the greatest score, the first in the order of insertion.
RECURSIVE first_max(_, _)
first_max(names, results) ==
    IF Len(names) = 1 THEN Head(names)
    ELSE LET rest == first_max(Tail(names), results)
         IN  IF weighted_score(results[Head(names)].metrics)
                   >= weighted_score(results[rest].metrics)
             THEN Head(names) ELSE rest

\* _select_best_strategy: the default when no strategy produced anything;
\* KeyError when a metrics dict is the fallback of calculate_all_metrics,
\* which has no business_impact.
_select_best_strategy(results) ==
    LET names == SelectSeq(strategies, LAMBDA s : s \in DOMAIN results)
    IN  IF names = <<>>
        THEN [error |-> "ok", strategy |-> "balanced", reason |-> "No data available"]
        ELSE IF \E s \in Range(names) :
                   "business_impact" \notin DOMAIN results[s].metrics.business
        THEN [error |-> "KeyError", strategy |-> ""]
        ELSE LET best == first_max(names, results)
             IN  [ error |-> "ok", strategy |-> best,
                   weighted_score |-> weighted_score(results[best].metrics),
                   overall_score |-> results[best].metrics.overall_score.overall_score,
                   reason |-> "balance of business value and coverage" ]

\* generate_strategy_comparison, lines 421-425, and for run_complete_analysis
\* lines 573-574.
SelectBest ==
    /\ pc = "comparing"
    /\ strategies_left = <<>>
    /\ LET best == _select_best_strategy(comparison_results)
       IN  IF best.error # "ok"
           THEN /\ pc' = "aborted"
                /\ outcome' = best.error
                /\ UNCHANGED best_strategy
           ELSE /\ best_strategy' = best
                /\ IF entry = "generate_strategy_comparison"
                   THEN pc' = "done" /\ outcome' = "ok"
                   ELSE pc' = "best_chosen" /\ UNCHANGED outcome
    /\ UNCHANGED <<is_trained, use_ml, user_profiles, ml_outcomes, recommendations,
                   tie_order, strategy, optimized, profile, match, failed_users, log,
                   profiler_vars, metrics, entry, strategies_left, comparison_results,
                   scored, bad_rows>>

\* analyze_recommendation_impact up to the first exception: _segment_users
\* filters the profiles on spending_level, _analyze_product_impact
\* aggregates product_type, match_score, business_value and final_score.
analyze_recommendation_impact(recs, profiles) ==
    IF ~({"spending_level", "interaction_frequency", "total_interactions"}
             \subseteq columns(profiles))
    THEN "ColumnNotFoundError"
    ELSE IF ~({"product_type", "match_score", "business_value", "final_score",
               "user_id"} \subseteq columns(recs))
    THEN "ColumnNotFoundError"
    ELSE IF series_has_length THEN "ok" ELSE "AttributeError"

\* generate_personalized_explanations reads rec['match_score'] of every row.
generate_personalized_explanations(recs) ==
    IF \E k \in 1..Len(recs) : "match_score" \notin DOMAIN recs[k]
    THEN "KeyError" ELSE "ok"

\* run_complete_analysis, lines 583-635, after the recommendations of the
\* best strategy came back: profiles, impact analysis, metrics,
\* explanations, reports.
CompleteAnalysis ==
    /\ pc = "generated"
    /\ entry = "run_complete_analysis"
    /\ best_strategy # NoBest
    /\ LET impact == analyze_recommendation_impact(optimized, user_profiles)
           explained == generate_personalized_explanations(optimized)
       IN  IF impact # "ok"
           THEN /\ pc' = "aborted"
                /\ outcome' = impact
                /\ UNCHANGED metrics
           ELSE /\ metrics' = calculate_all_metrics(optimized, user_profiles)
                /\ IF explained # "ok"
                   THEN pc' = "aborted" /\ outcome' = explained
                   ELSE pc' = "done" /\ outcome' = "ok"
    /\ UNCHANGED <<is_trained, use_ml, user_profiles, ml_outcomes, recommendations,
                   tie_order, strategy, optimized, profile, match, failed_users, log,
                   profiler_vars, call_vars>>

NextEngine ==
    \/ BeginComparison
    \/ BeginGenerate
    \/ ScoreUser
    \/ FinishScoring
    \/ Optimize
    \/ ReturnRecommendations
    \/ SkipStrategy
    \/ Evaluate
    \/ RecordResult
    \/ SelectBest
    \/ CompleteAnalysis

SpecEngine == InitEngine /\ [][NextEngine]_vars

----------------------------------------------------------------------------
(* Properties of the engine.                                               *)

\* The candidates of the first k profile rows of the run.
RECURSIVE scored_candidates(_)
scored_candidates(k) ==
    IF k = 0 THEN <<>>
    ELSE scored_candidates(k - 1)
         \o (IF k \in bad_rows THEN <<>>
             ELSE _get_enhanced_recommendations_for_user(
                     user_profiles[k], use_ml, ml_outcomes[k]))

scoring_complete ==
    /\ scored = Len(user_profiles)
    /\ recommendations = scored_candidates(Len(user_profiles))

\* C20: the strategy step begins only when every profile of the batch has
\* been scored, and the metrics are computed only from the optimized set of
\* the complete candidate collection; nothing is computed over a partially
\* scored collection.
C20_Barriers ==
    /\ pc = "scored" => scoring_complete
    /\ optimized # <<>> =>
          /\ scoring_complete
          /\ optimized = _apply_optimization_strategy(recommendations, strategy).rows
    /\ metrics # NoMetrics =>
          /\ scoring_complete
          /\ optimized = _apply_optimization_strategy(recommendations, strategy).rows
          /\ metrics = calculate_all_metrics(optimized, user_profiles)

\* The comparison evaluated the first strategy on the candidates of two
\* profiles, both scored.
C20_Witness ==
    /\ pc = "evaluated"
    /\ Len(user_profiles) >= 2
    /\ bad_rows = {}
    /\ metrics # NoMetrics
    /\ {optimized[k].user_id : k \in 1..Len(optimized)} = {1, 2}

\* C12: on every input and with each of the four strategies the entry
\* points generate_recommendations, generate_strategy_comparison and
\* run_complete_analysis run to completion and return a result; an empty
\* batch yields empty collections and no stage aborts the run.
C12_EntryPointsComplete ==
    /\ pc # "aborted"
    /\ (pc = "done" /\ entry = "generate_recommendations"
           /\ scored_candidates(Len(user_profiles)) = <<>>) => optimized = <<>>

\* The strategies that have an entry in the results of the comparison.
compared == {s \in Range(strategies) : s \in DOMAIN comparison_results}

\* C14: the comparison runs the four strategies on the same input, computes
\* the metrics of each, and reports as best the strategy with the greatest
\* 0.4 * business value + 0.3 * coverage + 0.3 * relevance, whatever the
\* overall scores are.
C14_BestIsArgmaxOfFour ==
    (entry = "generate_strategy_comparison"
        /\ scored_candidates(Len(user_profiles)) # <<>>) =>
       /\ pc # "aborted"
       /\ pc = "done" =>
             /\ compared = Range(strategies)
             /\ \A s \in compared :
                   /\ comparison_results[s].metrics
                         = calculate_all_metrics(
                              _apply_optimization_strategy(recommendations, s).rows,
                              user_profiles)
                   /\ weighted_score(comparison_results[best_strategy.strategy].metrics)
                         >= weighted_score(comparison_results[s].metrics)

----------------------------------------------------------------------------
(* Further properties of the ProductMatcher.                               *)

\* The users of the batch whose call did not raise.
scored_users == {k \in 1..Len(user_profiles) : k \notin Range(failed_users)}

\* C21: when no ML correction is applied the score of a user does not
\* depend on the product: every product gets the same base score >= 0.3, so
\* the user's candidates are the first min(5, catalog size) products in
\* catalog order, all with the same final_score, whatever the profile.
C21_ProductIndependentScore ==
    ~ml_available =>
       \A i \in scored_users :
          LET rows == rows_of_user(recommendations, i)
          IN  /\ Len(rows) = Min(5, Len(bank_products))
              /\ \A k \in 1..Len(rows) :
                    /\ rows[k].product_id = bank_products[k].id
                    /\ rows[k].base_match_score >= 3000
                    /\ rows[k].final_score = rows[k].base_match_score
                    /\ rows[k].final_score = rows[1].final_score
              /\ \A j \in 1..Len(bank_products) :
                    _calculate_simple_product_match(user_profiles[i], bank_products[j])
                       = _calculate_simple_product_match(user_profiles[i], bank_products[1])

\* The matcher returned, without the ML correction, the first five products
\* of a longer catalog for a user with the scenario-B profile.
C21_Witness ==
    /\ pc = "matched"
    /\ ~ml_available
    /\ Len(bank_products) > 5
    /\ \E i \in scored_users :
          /\ user_profiles[i] = ScenarioBProfile(i)
          /\ Len(rows_of_user(recommendations, i)) = 5

----------------------------------------------------------------------------
(* Further properties of the UserProfiler.                                 *)

FiveLevels == {"very_high", "high", "medium", "low", "very_low"}

level_of(total) ==
    IF total > 50000 THEN "very_high"
    ELSE IF total > 20000 THEN "high"
    ELSE IF total > 5000 THEN "medium"
    ELSE IF total > 1000 THEN "low"
    ELSE "very_low"

\* The resolved prices of a user's enriched events.
resolved_prices(user_id) ==
    LET user_events == events_of_user(enriched_events, user_id)
    IN  IF "price_fixed" \in columns(user_events)
        THEN drop_nulls(column_of(user_events, "price_fixed")) ELSE <<>>

has_price_column(user_id) ==
    "price_fixed" \in columns(events_of_user(enriched_events, user_id))

\* total_spent, avg_transaction_value and max_transaction of profile p are
\* the sum, mean and max of the user's resolved prices (0 without any) and
\* the level is the one of total_spent.
spending_from_prices(p) ==
    LET prices == resolved_prices(p.user_id)
    IN  /\ p.total_spent = SumOver(prices)
        /\ p.avg_transaction_value * Len(prices) = SumOver(prices)
        /\ prices = <<>> => p.avg_transaction_value = 0
        /\ p.max_transaction =
              (IF prices = <<>> THEN 0
               ELSE CHOOSE m \in Range(prices) : \A x \in Range(prices) : x <= m)
        /\ p.spending_level = level_of(p.total_spent)

scenario_a_figures(p) ==
    resolved_prices(p.user_id) = <<1000, 2000, 3000>> =>
       /\ p.total_spent = 6000
       /\ p.avg_transaction_value = 2000
       /\ p.spending_level = "medium"

\* C22: the three spending figures are the sum, mean and max of
\* the user's resolved prices, spending_level is always one of the five
\* levels, chosen by total_spent alone with exclusive boundaries, and
\* scenario A gives 6000, 2000 and "medium".
C22_SpendingMetrics ==
    \A k \in 1..Len(user_profiles) :
       /\ spending_from_prices(user_profiles[k])
       /\ user_profiles[k].spending_level \in FiveLevels
       /\ scenario_a_figures(user_profiles[k])

\* What does hold: the figures are as described for a user whose events
\* carry a price column; a user whose events carry none (the catalog was
\* empty or the join failed) gets 0, 0, 0 and the sixth level "unknown".
spending_metrics_where_priced ==
    \A k \in 1..Len(user_profiles) :
       LET p == user_profiles[k]
       IN  IF has_price_column(p.user_id)
           THEN /\ spending_from_prices(p)
                /\ p.spending_level \in FiveLevels
                /\ scenario_a_figures(p)
           ELSE /\ p.total_spent = 0
                /\ p.avg_transaction_value = 0
                /\ p.max_transaction = 0
                /\ p.spending_level = "unknown"

\* Scenario A: the profile of a user with three events priced 1000, 2000
\* and 3000 was returned.
scenario_a_profiled ==
    /\ profiles_returned
    /\ \E k \in 1..Len(user_profiles) :
          /\ resolved_prices(user_profiles[k].user_id) = <<1000, 2000, 3000>>
          /\ user_profiles[k].spending_level = "medium"

\* A profile with level "unknown" was returned for a user whose events got
\* no price column.
unknown_level_profiled ==
    /\ profiles_returned
    /\ \E k \in 1..Len(user_profiles) :
          /\ ~has_price_column(user_profiles[k].user_id)
          /\ user_profiles[k].spending_level = "unknown"

\* The categorised events of a user: the category is neither null nor empty.
categorised_events(user_id) ==
    LET user_events == events_of_user(enriched_events, user_id)
    IN  IF "category" \in columns(user_events)
        THEN SelectSeq(user_events,
                       LAMBDA e : e.category # Null /\ e.category[1] \notin {"", "null"})
        ELSE <<>>

categories_of(user_id) ==
    {categorised_events(user_id)[k].category[1] :
        k \in 1..Len(categorised_events(user_id))}

events_in(user_id, c) ==
    SelectSeq(categorised_events(user_id), LAMBDA e : e.category[1] = c)

spend_of(events) ==
    IF "price_fixed" \in columns(events)
    THEN SumOver(drop_nulls(column_of(events, "price_fixed"))) ELSE 0

\* 0.6 * share of the categorised events + 0.4 * share of the categorised
\* spend, in units of 1e-4; the spend share is 1 for the only category.
blended_shares(user_id, c) ==
    LET events_share ==
            (6000 * Len(events_in(user_id, c))) \div Len(categorised_events(user_id))
        total == spend_of(categorised_events(user_id))
        spend_share ==
            IF categories_of(user_id) = {c} THEN 4000
            ELSE IF total > 0 THEN (4000 * spend_of(events_in(user_id, c))) \div total
            ELSE 0
    IN  events_share + spend_share

\* Equal up to the rounding to three decimals.
rounds_to(value, exact) == value - exact <= 10 /\ exact - value <= 10

\* C23: category_affinity maps each non-null, non-empty category of the
\* user's events to 0.6 * event share + 0.4 * spend share, every value in
\* [0, 1]; a null or empty category is never a key; at most the 10 highest
\* are kept, in descending order; a user with a single category gets
\* exactly {category: 1.0}.
C23_CategoryAffinity ==
    \A k \in 1..Len(user_profiles) :
       LET u == user_profiles[k].user_id
           affinity == user_profiles[k].category_affinity
           cats == categories_of(u)
           ranked == sorted_categories(affinity, DOMAIN affinity)
       IN  /\ DOMAIN affinity \subseteq cats
           /\ Cardinality(DOMAIN affinity) = Min(Cardinality(cats), 10)
           /\ \A c \in DOMAIN affinity :
                 /\ rounds_to(affinity[c], blended_shares(u, c))
                 /\ 0 <= affinity[c] /\ affinity[c] <= 10000
                 /\ \A d \in cats \ DOMAIN affinity :
                       blended_shares(u, d) <= blended_shares(u, c)
           /\ \A i \in 1..(Len(ranked) - 1) : affinity[ranked[i]] >= affinity[ranked[i + 1]]
           /\ \A c \in cats : cats = {c} => affinity = (c :> 10000)

\* The events sorted by timestamp, earliest first; events without a
\* timestamp keep their place at the end.
RECURSIVE chronological(_)
chronological(events) ==
    LET dated == {k \in 1..Len(events) : events[k].timestamp # Null}
    IN  IF dated = {} THEN events
        ELSE LET first == CHOOSE k \in dated :
                              \A j \in dated :
                                  \/ events[k].timestamp[1] < events[j].timestamp[1]
                                  \/ events[k].timestamp[1] = events[j].timestamp[1] /\ k <= j
                 rest == [j \in 1..(Len(events) - 1) |->
                             IF j < first THEN events[j] ELSE events[j + 1]]
             IN  <<events[first]>> \o chronological(rest)

category_set(events) ==
    IF "category" \in columns(events)
    THEN Range(drop_nulls(column_of(events, "category"))) ELSE {}

\* |A \cap B| / |A \cup B| of the category sets of the two halves, in units
\* of 1e-4; the events are split at the midpoint.
jaccard_of_halves(events) ==
    LET half_point == Len(events) \div 2
        A == category_set(SubSeq(events, 1, half_point))
        B == category_set(SubSeq(events, half_point + 1, Len(events)))
    IN  (Cardinality(A \cap B) * 10000) \div Cardinality(A \cup B)

\* C24: preference_stability is exactly 0.5 for a user with fewer than 10
\* events; with 10 or more events it is the Jaccard similarity of the
\* category sets of the first and the second half of the user's events in
\* chronological order, whatever the order of arrival.
C24_StabilityIsChronological ==
    \A k \in 1..Len(user_profiles) :
       LET user_events == events_of_user(enriched_events, user_profiles[k].user_id)
           stability == user_profiles[k].preference_stability
       IN  /\ Len(user_events) < 10 => stability = 5000
           /\ Len(user_events) >= 10 /\ category_set(user_events) # {}
                 => stability = jaccard_of_halves(chronological(user_events))

\* The value the code computes: the same similarity of the two halves of
\* the events in their order of arrival.
stability_in_arrival_order ==
    \A k \in 1..Len(user_profiles) :
       LET user_events == events_of_user(enriched_events, user_profiles[k].user_id)
           stability == user_profiles[k].preference_stability
       IN  /\ Len(user_events) < 10 => stability = 5000
           /\ Len(user_events) >= 10 /\ category_set(user_events) # {}
                 => stability = jaccard_of_halves(user_events)

----------------------------------------------------------------------------
(* Further properties of the metrics.                                      *)

scores_above(recs, x) ==
    Len(SelectSeq(column_of(recs, "final_score"), LAMBDA v : v > x))

\* C25: for a non-empty recommendation set the relevance metrics are
\* computed from the candidates' scores: the average is the mean of the
\* final score, high_confidence_rate is the share of candidates whose
\* final_score exceeds 0.7, and the four buckets (> 0.8, 0.6-0.8, 0.4-0.6,
\* <= 0.4) partition the candidates by score, their counts summing to the
\* size of the set.
C25_RelevanceFromScores ==
    (evaluated /\ recommendations # <<>>) =>
        LET relevance == metrics.relevance
            n == Len(recommendations)
        IN  /\ {"avg_final_score", "confidence_distribution"} \subseteq DOMAIN relevance
            /\ relevance.avg_final_score = mean3(column_of(recommendations, "final_score"))
            /\ relevance.high_confidence_rate = ratio3(scores_above(recommendations, 7000), n)
            /\ relevance.confidence_distribution =
                  [ very_high |-> scores_above(recommendations, 8000),
                    high |-> scores_above(recommendations, 6000)
                             - scores_above(recommendations, 8000),
                    medium |-> scores_above(recommendations, 4000)
                               - scores_above(recommendations, 6000),
                    low |-> n - scores_above(recommendations, 4000) ]

\* What does hold of the relevance metrics of a frame that is evaluated in
\* full: the average final score is the mean of the column and the bucket
\* counts sum to the size of the set, all of them in the lowest bucket.
relevance_without_match_column ==
    (evaluated /\ recommendations # <<>>
       /\ ~_calculate_distribution_metrics(recommendations).raised) =>
        LET relevance == metrics.relevance
        IN  /\ relevance.avg_final_score = mean3(column_of(recommendations, "final_score"))
            /\ relevance.avg_match_score = 5000
            /\ relevance.high_confidence_rate = 0
            /\ relevance.confidence_distribution =
                  [ very_high |-> 0, high |-> 0, medium |-> 0,
                    low |-> Len(recommendations) ]

(* Specification of _calculate_overall_score on metric groups of its own:  *)
(* every combination of the component values below, which reach the three  *)
(* boundaries 0.3, 0.5 and 0.7 exactly, next to the reports of             *)
(* calculate_all_metrics.                                                  *)

OverallCoverageValues == {0, 4000, 10000, 20000}

OverallRelevanceValues == {0, 5000, 10000}

OverallDiversityValues == {0, 5000, 10000}

OverallBusinessValues == {0, 1250, 2500, 5000, 9000}

InitOverall ==
    /\ is_trained = FALSE
    /\ pc = "overall_call"
    /\ use_ml = FALSE
    /\ user_profiles = <<>>
    /\ ml_outcomes = <<>>
    /\ recommendations = <<>>
    /\ tie_order = <<>>
    /\ strategy = ""
    /\ optimized = <<>>
    /\ outcome = "none"
    /\ profile = NoProfile
    /\ match = NoMatch
    /\ failed_users = <<>>
    /\ log = <<>>
    /\ \E c \in OverallCoverageValues, r \in OverallRelevanceValues,
          d \in OverallDiversityValues, b \in OverallBusinessValues :
          metrics = [ coverage |-> [user_coverage_rate |-> c],
                      relevance |-> [avg_match_score |-> r],
                      diversity |-> [diversity_index |-> d],
                      business |-> [avg_business_value_per_rec |-> b] ]
    /\ ProfilerIdle
    /\ entry = ""
    /\ strategies_left = <<>>
    /\ comparison_results = <<>>
    /\ best_strategy = NoBest
    /\ scored = 0
    /\ bad_rows = {}

CalculateOverallScore ==
    /\ pc = "overall_call"
    /\ pc' = "overall_done"
    /\ metrics' = [ coverage |-> metrics.coverage,
                    relevance |-> metrics.relevance,
                    diversity |-> metrics.diversity,
                    business |-> metrics.business,
                    overall_score |-> _calculate_overall_score(metrics) ]
    /\ outcome' = "ok"
    /\ UNCHANGED <<is_trained, use_ml, user_profiles, ml_outcomes, recommendations,
                   tie_order, strategy, optimized, profile, match, failed_users, log,
                   profiler_vars, call_vars>>

SpecOverall ==
    (InitOverall \/ InitMetrics) /\ [][CalculateOverallScore \/ NextMetrics]_vars

\* The report's overall_score group comes from _calculate_overall_score and
\* not from the literal of the error fallback.
overall_score_calculated ==
    \/ pc = "overall_done"
    \/ evaluated /\ "component_scores" \in DOMAIN metrics.overall_score

\* The weighted sum in units of 1e-6.
weighted_components ==
    25 * metrics.coverage.user_coverage_rate
    + 35 * metrics.relevance.avg_match_score
    + 20 * metrics.diversity.diversity_index
    + 20 * (IF 2 * metrics.business.avg_business_value_per_rec < 10000
            THEN 2 * metrics.business.avg_business_value_per_rec ELSE 10000)

components_in_unit_interval ==
    \A x \in {metrics.coverage.user_coverage_rate, metrics.relevance.avg_match_score,
              metrics.diversity.diversity_index,
              metrics.business.avg_business_value_per_rec} : 0 <= x /\ x <= 10000

\* C26: overall_score = 0.25 * coverage_rate + 0.35 * relevance
\* + 0.20 * diversity_index + 0.20 * min(2 * avg_business_value, 1), reported
\* to three decimals; it lies in [0, 1] whenever the components do; the
\* rating is excellent above 0.7, good above 0.5, fair above 0.3, else poor,
\* the boundaries being exclusive.
C26_OverallScoreAndRating ==
    overall_score_calculated =>
        LET overall == metrics.overall_score
        IN  /\ 100 * overall.overall_score - weighted_components <= 500
            /\ weighted_components - 100 * overall.overall_score <= 500
            /\ components_in_unit_interval =>
                  0 <= overall.overall_score /\ overall.overall_score <= 10000
            /\ overall.quality_rating =
                  IF weighted_components > 700000 THEN "excellent"
                  ELSE IF weighted_components > 500000 THEN "good"
                  ELSE IF weighted_components > 300000 THEN "fair"
                  ELSE "poor"

\* A report whose business component is capped at 1 has been rated from
\* calculated metrics, with all components in [0, 1].
C26_Witness ==
    /\ evaluated
    /\ overall_score_calculated
    /\ recommendations # <<>>
    /\ components_in_unit_interval
    /\ 2 * metrics.business.avg_business_value_per_rec > 10000
    /\ metrics.overall_score.quality_rating = "good"

\* The weighted sum has met each boundary exactly and got the lower rating.
C26_WitnessBoundaries ==
    /\ pc = "overall_done"
    /\ \/ weighted_components = 700000 /\ metrics.overall_score.quality_rating = "good"
       \/ weighted_components = 500000 /\ metrics.overall_score.quality_rating = "fair"
       \/ weighted_components = 300000 /\ metrics.overall_score.quality_rating = "poor"

----------------------------------------------------------------------------
(* Further properties of the strategies.                                   *)

strategy_applied == pc = "strategy_done"

pairs_of(rows) == {<<rows[k].user_id, rows[k].product_id>> : k \in 1..Len(rows)}

keeps_pairs_and_users ==
    /\ outcome = "ok"
    /\ pairs_of(optimized) \subseteq pairs_of(recommendations)
    /\ users_of(optimized) = users_of(recommendations)

\* C27: for each of the four strategies and every candidate collection the
\* (user_id, product_id) pairs of the output are a subset of those of the
\* input and the distinct users of the output are those of the input, so
\* that the user coverage rate is the same for all strategies.
C27_StrategiesKeepUsers ==
    (strategy_applied /\ strategy \in {"coverage", "revenue", "engagement", "balanced"})
        => keeps_pairs_and_users

\* The same of every label but "revenue".
strategies_but_revenue_keep_users ==
    (strategy_applied /\ strategy # "revenue") => keeps_pairs_and_users

in_unit_interval(x) == 0 <= x /\ x <= 10000

inputs_in_unit_interval ==
    \A k \in 1..Len(recommendations) :
       /\ in_unit_interval(recommendations[k].final_score)
       /\ in_unit_interval(recommendations[k].business_value)

\* The final_score the candidate of an output row has in the input.
input_score_of(row) ==
    LET k == CHOOSE i \in 1..Len(recommendations) :
                 /\ recommendations[i].user_id = row.user_id
                 /\ recommendations[i].product_id = row.product_id
    IN  recommendations[k].final_score

blended_outputs_in_unit_interval ==
    /\ outcome = "ok"
    /\ optimized # <<>>
    /\ \A k \in 1..Len(optimized) : in_unit_interval(optimized[k].final_score)

final_scores_unchanged ==
    /\ outcome = "ok"
    /\ \A k \in 1..Len(optimized) : optimized[k].final_score = input_score_of(optimized[k])

\* C28: when every input candidate has final_score and business_value in
\* [0, 1], the balanced and the revenue strategy return rows whose
\* final_score, overwritten with the blended ranking score, is still in
\* [0, 1]; coverage and engagement leave final_score unchanged.
C28_BlendedScoresStayInRange ==
    (strategy_applied /\ inputs_in_unit_interval) =>
        /\ strategy \in {"balanced", "revenue"} => blended_outputs_in_unit_interval
        /\ strategy \in {"coverage", "engagement"} => final_scores_unchanged

\* The same without the revenue strategy, whose aggregation raises; the
\* revenue_score it ranks by is in [0, 1] all the same.
scores_stay_in_range_but_revenue ==
    (strategy_applied /\ inputs_in_unit_interval) =>
        /\ strategy = "balanced" => blended_outputs_in_unit_interval
        /\ strategy \in {"coverage", "engagement"} => final_scores_unchanged
        /\ strategy = "revenue" =>
              \A k \in 1..Len(recommendations) :
                 in_unit_interval(revenue_ranked(recommendations)[k].revenue_score)

----------------------------------------------------------------------------
(* Further properties of the engine.                                       *)

\* The comparison has computed the report of the coverage strategy.
coverage_evaluated ==
    /\ pc = "evaluated"
    /\ entry \in {"generate_strategy_comparison", "run_complete_analysis"}
    /\ strategy = "coverage"

\* The report the engagement strategy gets on the same candidates.
engagement_report ==
    calculate_all_metrics(_optimize_for_engagement(recommendations).rows, user_profiles)

\* The entries of coverage and engagement next to each other, in the order
\* in which the comparison inserts them.
coverage_and_engagement ==
    ("coverage" :> [metrics |-> metrics]) @@ ("engagement" :> [metrics |-> engagement_report])

\* C29: the strategy comparison never reports "engagement" as the best
\* strategy: coverage and engagement produce the same metrics, hence the
\* same weighted score, and of equal scores the strategy evaluated first in
\* the order coverage, revenue, engagement, balanced is selected.
C29_EngagementNeverBest ==
    /\ best_strategy.strategy # "engagement"
    /\ coverage_evaluated =>
          /\ _optimize_for_engagement(recommendations).error = "ok"
          /\ engagement_report = metrics
          /\ weighted_score(engagement_report) = weighted_score(metrics)
          /\ _select_best_strategy(coverage_and_engagement).strategy # "engagement"

\* The comparison has the full report of the coverage strategy in hand, the
\* one the engagement strategy gets as well, and the selection between the
\* two takes coverage.
C29_Witness ==
    /\ coverage_evaluated
    /\ "business_impact" \in DOMAIN metrics.business
    /\ _select_best_strategy(coverage_and_engagement).strategy = "coverage"

\* The comparison has returned its report: the default of an empty
\* comparison.
C29_WitnessReported ==
    /\ pc = "done"
    /\ entry = "generate_strategy_comparison"
    /\ best_strategy.strategy = "balanced"

----------------------------------------------------------------------------
(* The limit on the users profiled in one run.                             *)

users_with_events == {enriched_events[k].user_id : k \in 1..Len(enriched_events)}

users_with_profile == {user_profiles[k].user_id : k \in 1..Len(user_profiles)}

\* C30: at most 1000 users are profiled per run: only the first 1000
\* distinct user ids found in the enriched events are considered, so the
\* profile set never has more than 1000 entries and a user beyond that cut
\* gets no profile although they have events.
C30_AtMostThousandProfiled ==
    /\ Len(sample_users) <= 1000
    /\ Len(user_profiles) <= 1000
    /\ (profiles_returned /\ enriched_events # <<>>) =>
          /\ \E order \in unique_orders(enriched_events) :
                sample_users = SubSeq(order, 1, Min(Len(order), 1000))
          /\ users_with_profile \subseteq Range(sample_users)
          /\ Cardinality(users_with_events) > 1000 =>
                \E u \in users_with_events : u \notin users_with_profile

\* A run over 1001 users has returned 1000 profiles; one user with events
\* has none.
C30_Witness ==
    /\ profiles_returned
    /\ Cardinality(users_with_events) = 1001
    /\ Len(user_profiles) = 1000
    /\ Cardinality(users_with_events \ users_with_profile) = 1

============================================================================
